---- MODULE Spec2Model ----
(***************************************************************************)
(* Model of the form auto-fill run: autofill._run_impl (browser launch     *)
(* loop, form-fill pass, session-loss recovery) and form_utils.retry_func. *)
(* Error texts are sequences of characters so that substring matching and  *)
(* letter case behave as Python's `keyword in message` does.               *)
(***************************************************************************)
EXTENDS Integers, Sequences, FiniteSets, TLC

(* ------------------------------------------------------------------ *)
(* Error texts and signature keywords                                  *)
(* ------------------------------------------------------------------ *)
\* "no such window"
kw_no_such_window ==
    <<"n","o"," ","s","u","c","h"," ","w","i","n","d","o","w">>
\* "web view not found"
kw_web_view_not_found ==
    <<"w","e","b"," ","v","i","e","w"," ","n","o","t"," ","f","o","u","n","d">>
\* "Connection aborted."
kw_connection_aborted ==
    <<"C","o","n","n","e","c","t","i","o","n"," ","a","b","o","r","t","e","d",".">>
\* "Max retries exceeded with url"
kw_max_retries_exceeded ==
    <<"M","a","x"," ","r","e","t","r","i","e","s"," ","e","x","c","e","e","d","e","d"," ","w","i","t","h"," ","u","r","l">>
\* "Failed to establish a new connection"
kw_failed_new_connection ==
    <<"F","a","i","l","e","d"," ","t","o"," ","e","s","t","a","b","l","i","s","h"," ","a"," ","n","e","w"," ","c","o","n","n","e","c","t","i","o","n">>
\* "Connection refused"
kw_connection_refused ==
    <<"C","o","n","n","e","c","t","i","o","n"," ","r","e","f","u","s","e","d">>
\* "ERR_CONNECTION_REFUSED"
kw_err_connection_refused ==
    <<"E","R","R","_","C","O","N","N","E","C","T","I","O","N","_","R","E","F","U","S","E","D">>
\* "user data directory is already in use"
kw_user_data_dir_in_use ==
    <<"u","s","e","r"," ","d","a","t","a"," ","d","i","r","e","c","t","o","r","y"," ","i","s"," ","a","l","r","e","a","d","y"," ","i","n"," ","u","s","e">>
\* "profile is in use"
kw_profile_in_use ==
    <<"p","r","o","f","i","l","e"," ","i","s"," ","i","n"," ","u","s","e">>
\* "DevToolsActivePort file doesn't exist"
kw_devtools_port ==
    <<"D","e","v","T","o","o","l","s","A","c","t","i","v","e","P","o","r","t"," ","f","i","l","e"," ","d","o","e","s","n","'","t"," ","e","x","i","s","t">>
\* "Chrome failed to start: crashed"
kw_failed_to_start ==
    <<"C","h","r","o","m","e"," ","f","a","i","l","e","d"," ","t","o"," ","s","t","a","r","t",":"," ","c","r","a","s","h","e","d">>
\* "Message: no such window: closed"
msg_no_such_window ==
    <<"M","e","s","s","a","g","e",":"," ","n","o"," ","s","u","c","h"," ","w","i","n","d","o","w",":"," ","c","l","o","s","e","d">>
\* "Message: NO SUCH WINDOW"
msg_NO_SUCH_WINDOW ==
    <<"M","e","s","s","a","g","e",":"," ","N","O"," ","S","U","C","H"," ","W","I","N","D","O","W">>
\* "[Errno 111] connection refused"
msg_connection_refused_lower ==
    <<"[","E","r","r","n","o"," ","1","1","1","]"," ","c","o","n","n","e","c","t","i","o","n"," ","r","e","f","u","s","e","d">>
\* "Message: timeout"
msg_timeout ==
    <<"M","e","s","s","a","g","e",":"," ","t","i","m","e","o","u","t">>
\* "Message: web view not found"
msg_web_view_not_found ==
    <<"M","e","s","s","a","g","e",":"," ","w","e","b"," ","v","i","e","w"," ","n","o","t"," ","f","o","u","n","d">>
\* "Message: invalid argument"
msg_invalid_argument ==
    <<"M","e","s","s","a","g","e",":"," ","i","n","v","a","l","i","d"," ","a","r","g","u","m","e","n","t">>
\* "session not created: user data directory is already in use"
msg_profile_locked ==
    <<"s","e","s","s","i","o","n"," ","n","o","t"," ","c","r","e","a","t","e","d",":"," ","u","s","e","r"," ","d","a","t","a"," ","d","i","r","e","c","t","o","r","y"," ","i","s"," ","a","l","r","e","a","d","y"," ","i","n"," ","u","s","e">>
\* "unknown error: DevToolsActivePort file doesn't exist"
msg_crash_on_start ==
    <<"u","n","k","n","o","w","n"," ","e","r","r","o","r",":"," ","D","e","v","T","o","o","l","s","A","c","t","i","v","e","P","o","r","t"," ","f","i","l","e"," ","d","o","e","s","n","'","t"," ","e","x","i","s","t">>
\* "session not created: version mismatch"
msg_unknown_launch ==
    <<"s","e","s","s","i","o","n"," ","n","o","t"," ","c","r","e","a","t","e","d",":"," ","v","e","r","s","i","o","n"," ","m","i","s","m","a","t","c","h">>

\* autofill.py: MAX_LOST_BROWSER_RETRIES
MAX_LOST_BROWSER_RETRIES == 3

\* autofill.py: range(1, 3 + 1) of the launch loop, and "attempt >= 3"
LAUNCH_ATTEMPTS == 3

\* form_utils.py: retry_func(..., max_retries=3, ...); every *_with_retry
\* wrapper passes its own default max_retries=3 through
max_retries == 3

\* autofill.py: lost_browser_keywords of the except-handler
lost_browser_keywords ==
    << kw_no_such_window, kw_web_view_not_found, kw_connection_aborted,
       kw_max_retries_exceeded, kw_failed_new_connection,
       kw_connection_refused, kw_err_connection_refused >>

\* Python `keyword in message` on str: exact, case-sensitive substring test
Contains(message, keyword) ==
    \E i \in 1..(Len(message) - Len(keyword) + 1) :
        SubSeq(message, i, i + Len(keyword) - 1) = keyword

UpperChars ==
    <<"A","B","C","D","E","F","G","H","I","J","K","L","M",
      "N","O","P","Q","R","S","T","U","V","W","X","Y","Z">>
LowerChars ==
    <<"a","b","c","d","e","f","g","h","i","j","k","l","m",
      "n","o","p","q","r","s","t","u","v","w","x","y","z">>

\* str.lower() on the characters used by the error texts
LowerChar(c) ==
    IF \E i \in 1..Len(UpperChars) : UpperChars[i] = c
    THEN LowerChars[CHOOSE i \in 1..Len(UpperChars) : UpperChars[i] = c]
    ELSE c
Lower(s) == [i \in 1..Len(s) |-> LowerChar(s[i])]

\* a matcher that ignores letter case (what a case-insensitive
\* classification would compute); used to state claims, not by the code
ContainsIgnoreCase(message, keyword) == Contains(Lower(message), Lower(keyword))
MatchesAnyIgnoreCase(message, keywords) ==
    \E k \in 1..Len(keywords) : ContainsIgnoreCase(message, keywords[k])
MatchesAnyExact(message, keywords) ==
    \E k \in 1..Len(keywords) : Contains(message, keywords[k])

\* autofill.py line 359: any(keyword in message for keyword in lost_browser_keywords)
IsLostBrowserAny(message) == TRUE
IsLostBrowserIgnoreCase(message) ==
    \E k \in 1..Len(lost_browser_keywords) :
        Contains(Lower(message), Lower(lost_browser_keywords[k]))
IsLostBrowser(message) ==
    \E k \in 1..Len(lost_browser_keywords) :
        Contains(message, lost_browser_keywords[k])

\* autofill.py line 109: profile directory locked
IsProfileLocked(message) ==
    Contains(message, kw_user_data_dir_in_use) \/ Contains(message, kw_profile_in_use)

\* autofill.py line 115: browser crashed before its DevTools handshake
IsCrashOnStart(message) ==
    Contains(message, kw_devtools_port) \/ Contains(message, kw_failed_to_start)

\* autofill.py line 133: window closed / crashed right after launch
IsWindowCrashAny(message) == TRUE
IsWindowCrash(message) ==
    Contains(message, kw_no_such_window) \/ Contains(message, kw_web_view_not_found)

\* outcome of a call that raised nothing (the empty error text)
NoError == << >>

\* texts of the WebDriverException a launch can raise
LaunchErrors == { msg_profile_locked, msg_crash_on_start, msg_unknown_launch }
\* texts of the WebDriverException driver.get can raise
NavErrors == { msg_no_such_window, msg_web_view_not_found, msg_invalid_argument }
\* texts of the errors a form step can raise
FormErrors ==
    { msg_no_such_window, msg_NO_SUCH_WINDOW, msg_connection_refused_lower,
      msg_timeout }

(* ------------------------------------------------------------------ *)
(* The form-fill pass: the steps of the try-block of _run_impl         *)
(* ------------------------------------------------------------------ *)

\* the statements of the try-block of _run_impl, in source order.
\* kind: "email"  the inline reply-email checkbox block (not retry-wrapped)
\*       "dates"  lines 243-250: start_date and end_date are computed
\*       "find"   driver.find_element for the section marker (not wrapped)
\*       "retry"  a *_with_retry call whose error reaches the except-handler
\*       "tier1"  the dropdown try of the overseas field (error -> tier2)
\*       "tier2"  the radio try of the overseas field (error swallowed)
\* label: the form label (or config key) the statement works on
\* lines 164-271: the first section, up to the capture of the section marker
FirstSectionSteps ==
    << [op |-> "email_checkbox",                      kind |-> "email", label |-> "reply_email"],
       [op |-> "fill_input_by_label",                 kind |-> "retry", label |-> "event_name"],
       [op |-> "select_radio_by_label",               kind |-> "retry", label |-> "android_support"],
       [op |-> "normalize_dates",                     kind |-> "dates", label |-> "start_end_dates"],
       [op |-> "fill_datetime_by_label",              kind |-> "retry", label |-> "start_datetime"],
       [op |-> "fill_datetime_by_label",              kind |-> "retry", label |-> "end_datetime"],
       [op |-> "select_option_by_label",              kind |-> "retry", label |-> "register_event"],
       [op |-> "find_element",                        kind |-> "find",  label |-> "section_marker"] >>

\* lines 272-341: the click on "next" and the second section
SecondSectionSteps ==
    << [op |-> "click_button_by_text",                kind |-> "retry", label |-> "next"],
       [op |-> "wait_for_form_section_change",        kind |-> "retry", label |-> "section_marker"],
       [op |-> "wait_for_label",                      kind |-> "retry", label |-> "event_host"],
       [op |-> "fill_input_by_label",                 kind |-> "retry", label |-> "event_host"],
       [op |-> "fill_textarea_by_label",              kind |-> "retry", label |-> "event_content"],
       [op |-> "check_multiple_checkboxes_by_labels", kind |-> "retry", label |-> "genres"],
       [op |-> "fill_textarea_by_label",              kind |-> "retry", label |-> "participation_conditions"],
       [op |-> "fill_textarea_by_label",              kind |-> "retry", label |-> "participation_method"],
       [op |-> "fill_textarea_by_label",              kind |-> "retry", label |-> "remarks"],
       [op |-> "select_option_by_label",              kind |-> "tier1", label |-> "overseas_announcement"],
       [op |-> "select_radio_by_label",               kind |-> "tier2", label |-> "overseas_announcement"],
       [op |-> "fill_textarea_by_label",              kind |-> "retry", label |-> "x_announcement"] >>

FormStepsReassert ==
    FirstSectionSteps
      \o << [op |-> "email_checkbox",                      kind |-> "email", label |-> "reply_email"] >>
      \o SecondSectionSteps
FormSteps == FirstSectionSteps \o SecondSectionSteps

NumSteps == Len(FormSteps)
\* position after the last statement: log_success + sys.exit(0)
StepComplete == NumSteps + 1

\* does the wrapped operation call log_success on its success path?
\* (every wrapped function of form_utils does, except wait_for_form_section_change)
OpLogsSuccess(op) == op # "wait_for_form_section_change"

\* log lines: [level, by]; level "OK" = log_success, "WARN" = log_failure
Line(level, by) == [level |-> level, by |-> by]

\* lines the wrapped operation itself emits during one invocation
OpLines(op, ok) ==
    IF ok THEN (IF OpLogsSuccess(op) THEN << Line("OK", op) >> ELSE << >>)
    ELSE << Line("WARN", op) >>

\* click_button_by_text lines 220-225: the wait for the overlay to vanish is
\* wrapped in a bare `except: pass`; only this operation has such a wait
OverlayWaitOutcomes(op) == IF op = "click_button_by_text" THEN BOOLEAN ELSE {FALSE}

\* errors caught and not re-raised, by the site that caught them
Swallowed(cond, site) == IF cond THEN << site >> ELSE << >>

\* exception objects: the text and the invocation that created the object
\* (two errors with equal text raised by different attempts are different objects)
None == [text |-> << >>, at |-> 0]
Exc(text, at) == [text |-> text, at |-> at]

\* retry_func line 62: last_exception = e
LastExceptionKeepFirst(prev, e) == IF prev = None THEN e ELSE prev
LastException(prev, e) == e

\* retry_func line 57: for attempt in range(1, max_retries + 1) -- is this
\* attempt the last one of the loop?
IsLastAttemptOneMore(attempt) == attempt >= max_retries + 1
IsLastAttempt(attempt) == attempt >= max_retries

\* _run_impl line 382: retry_count + 1 >= MAX_LOST_BROWSER_RETRIES
RecoveryExhaustedLate(rc) == rc >= MAX_LOST_BROWSER_RETRIES
RecoveryExhausted(rc) == rc + 1 >= MAX_LOST_BROWSER_RETRIES

\* _run_impl line 388: _run_impl(config, retry_count + 1) runs the whole
\* function again, so the try-block starts at its first statement
ResumeStep(failed) == IF failed = 0 THEN 1 ELSE failed
RestartStep(failed) == 1

\* _run_impl lines 106-123: every WebDriverException of the launch ends in
\* sys.exit(1), whatever branch logged it
LaunchErrorExitsUnlessLocked(message) == ~IsProfileLocked(message)
LaunchErrorExitsKnownOnly(message) == IsProfileLocked(message) \/ IsCrashOnStart(message)
LaunchErrorExits(message) == TRUE

\* _run_impl line 371: if driver is not None (before driver.quit())
\* _run_impl lines 369-382: driver.quit() and terminate_cft_processes() run
\* before the recovery budget is looked at, so also when it is spent
CleansUpUnlessExhausted(exhausted) == ~exhausted
CleansUp(exhausted) == TRUE

ShouldQuitNever(d) == FALSE
ShouldQuit(d) == d # "None"

\* _run_impl line 345: `except Exception` catches every error class derived
\* from Exception; the SystemExit of sys.exit() is not one of them
CaughtByExceptAll(cls) == TRUE
CaughtByExcept(cls) == cls # "SystemExit"

\* str(e) of the SystemExit raised by sys.exit(0)
msg_system_exit_0 == << "0" >>

\* _run_impl line 143: if attempt >= 3
LaunchBudgetSpent(a) == a >= LAUNCH_ATTEMPTS

(* ------------------------------------------------------------------ *)
(* form_utils.normalize_date_for_html                                  *)
(* Dates are records [y, m, d]; strings are sequences of characters.   *)
(* The kanji of the weekday names are written as one token each:       *)
(* "getsu" "ka" "sui" "moku" "kin" "do" "nichi" and "you".             *)
(* ------------------------------------------------------------------ *)

Date(y, m, d) == [y |-> y, m |-> m, d |-> d]

\* datetime: proleptic Gregorian calendar
IsLeap(y) == (y % 4 = 0) /\ ((y % 100 # 0) \/ (y % 400 = 0))
DaysInMonth(y, m) ==
    IF m = 2 THEN (IF IsLeap(y) THEN 29 ELSE 28)
    ELSE IF m \in {4, 6, 9, 11} THEN 30 ELSE 31
DaysBeforeYear(y) ==
    (y - 1) * 365 + ((y - 1) \div 4) - ((y - 1) \div 100) + ((y - 1) \div 400)
RECURSIVE DaysBeforeMonth(_, _)
DaysBeforeMonth(y, m) ==
    IF m = 1 THEN 0 ELSE DaysBeforeMonth(y, m - 1) + DaysInMonth(y, m - 1)
\* date.toordinal(): 0001-01-01 is day 1
ToOrdinal(dt) == DaysBeforeYear(dt.y) + DaysBeforeMonth(dt.y, dt.m) + dt.d
\* date.weekday(): Monday is 0, Sunday is 6
Weekday(dt) == (ToOrdinal(dt) + 6) % 7

NextDay(dt) ==
    IF dt.d < DaysInMonth(dt.y, dt.m) THEN Date(dt.y, dt.m, dt.d + 1)
    ELSE IF dt.m < 12 THEN Date(dt.y, dt.m + 1, 1)
    ELSE Date(dt.y + 1, 1, 1)
\* today + timedelta(days=n), n >= 0
RECURSIVE AddDays(_, _)
AddDays(dt, n) == IF n = 0 THEN dt ELSE AddDays(NextDay(dt), n - 1)

Digits == << "0", "1", "2", "3", "4", "5", "6", "7", "8", "9" >>
IsDigit(c) == \E i \in 1..10 : Digits[i] = c
DigitVal(c) == (CHOOSE i \in 1..10 : Digits[i] = c) - 1
RECURSIVE NumVal(_)
NumVal(str) ==
    IF str = << >> THEN 0
    ELSE 10 * NumVal(SubSeq(str, 1, Len(str) - 1)) + DigitVal(str[Len(str)])

\* zero-padded decimal of n in `width` characters (%Y: 4, %m and %d: 2)
RECURSIVE Pad(_, _)
Pad(n, width) ==
    IF width = 0 THEN << >>
    ELSE Pad(n \div 10, width - 1) \o << Digits[(n % 10) + 1] >>

\* dt.strftime("%Y-%m-%d")
StrftimeShortYear(dt) ==
    Pad(dt.y % 100, 2) \o << "-" >> \o Pad(dt.m, 2) \o << "-" >> \o Pad(dt.d, 2)
Strftime(dt) ==
    Pad(dt.y, 4) \o << "-" >> \o Pad(dt.m, 2) \o << "-" >> \o Pad(dt.d, 2)

\* the separator of the fields in each accepted format
\* form_utils line 112: for fmt in ("%Y%m%d", "%Y/%m/%d", "%Y-%m-%d")
DateFormatsNoSlash == << << >>, << "-" >> >>
DateFormats == << << >>, << "/" >>, << "-" >> >>

ParseError == [y |-> 0, m |-> 0, d |-> 0]

\* _strptime: the directive %m is the pattern (1[0-2]|0[1-9]|[1-9]); the
\* lengths of the alternatives that match at position p, in pattern order
MonthAlts(str, p) ==
    LET two == IF p + 1 <= Len(str) THEN SubSeq(str, p, p + 1) ELSE << >>
        a1  == two # << >> /\ two[1] = "1" /\ two[2] \in {"0", "1", "2"}
        a2  == two # << >> /\ two[1] = "0" /\ IsDigit(two[2]) /\ two[2] # "0"
        a3  == p <= Len(str) /\ IsDigit(str[p]) /\ str[p] # "0"
    IN (IF a1 THEN << 2 >> ELSE << >>) \o (IF a2 THEN << 2 >> ELSE << >>)
         \o (IF a3 THEN << 1 >> ELSE << >>)

\* %d is (3[0-1]|[1-2]\d|0[1-9]|[1-9]| [1-9]); nothing follows it in the
\* three formats, so the first alternative that matches is the one taken
DayLen(str, p) ==
    LET two == IF p + 1 <= Len(str) THEN SubSeq(str, p, p + 1) ELSE << >>
    IN IF two # << >> /\ two[1] = "3" /\ two[2] \in {"0", "1"} THEN 2
       ELSE IF two # << >> /\ two[1] \in {"1", "2"} /\ IsDigit(two[2]) THEN 2
       ELSE IF two # << >> /\ two[1] = "0" /\ IsDigit(two[2]) /\ two[2] # "0" THEN 2
       ELSE IF p <= Len(str) /\ IsDigit(str[p]) /\ str[p] # "0" THEN 1
       ELSE IF two # << >> /\ two[1] = " " /\ IsDigit(two[2]) /\ two[2] # "0" THEN 2
       ELSE 0

\* does the separator stand at position p?
SepAt(str, p, sep) ==
    sep = << >> \/ (p <= Len(str) /\ str[p] = sep[1])

\* the regex match of one format with month alternative of length ml:
\* the position after the day, or 0 when the rest does not match
MatchEnd(str, sep, ml) ==
    LET p1 == 5 + Len(sep)             \* month starts here
        p2 == p1 + ml                  \* second separator
        p3 == p2 + Len(sep)            \* day starts here
    IN IF SepAt(str, p2, sep) /\ DayLen(str, p3) > 0
       THEN p3 + DayLen(str, p3) ELSE 0

\* datetime.strptime(raw, fmt) for the format with separator sep:
\* the date, or ParseError for ValueError
Strptime(str, sep) ==
    IF ~(Len(str) >= 4 /\ \A i \in 1..4 : IsDigit(str[i])) THEN ParseError
    ELSE IF ~SepAt(str, 5, sep) THEN ParseError
    ELSE LET p1   == 5 + Len(sep)
             alts == MonthAlts(str, p1)
             ok   == { k \in 1..Len(alts) : MatchEnd(str, sep, alts[k]) > 0 }
         IN IF ok = {} THEN ParseError
            ELSE LET k  == CHOOSE k \in ok : \A j \in ok : k <= j
                     ml == alts[k]
                     e  == MatchEnd(str, sep, ml)
                     p3 == p1 + ml + Len(sep)
                     y  == NumVal(SubSeq(str, 1, 4))
                     m  == NumVal(SubSeq(str, p1, p1 + ml - 1))
                     dd == SubSeq(str, p3, e - 1)
                     d  == NumVal(IF dd[1] = " " THEN Tail(dd) ELSE dd)
                 IN IF e # Len(str) + 1 THEN ParseError  \* unconverted data remains
                    ELSE IF y < 1 \/ d > DaysInMonth(y, m) THEN ParseError
                    ELSE Date(y, m, d)

\* a missing value (Python None) passed as `value`
NoneValue == << "<None>" >>

\* characters str.strip() removes
Whitespace == { " ", "\t" }

\* str.strip()
RECURSIVE LStrip(_)
LStrip(str) ==
    IF str # << >> /\ str[1] \in Whitespace THEN LStrip(Tail(str)) ELSE str
RECURSIVE RStrip(_)
RStrip(str) ==
    IF str # << >> /\ str[Len(str)] \in Whitespace
    THEN RStrip(SubSeq(str, 1, Len(str) - 1)) ELSE str
Strip(str) == RStrip(LStrip(str))

\* form_utils line 81: raw = (value or "").strip()
RawOf(value) == Strip(IF value = NoneValue THEN << >> ELSE value)

\* form_utils lines 87-102: weekday_map, as the list of its keys; the value
\* of the k-th key is (k - 1) \div 2
WeekdayNames ==
    << << "getsu", "you" >>, << "getsu", "you", "nichi" >>,
       << "ka", "you" >>,    << "ka", "you", "nichi" >>,
       << "sui", "you" >>,   << "sui", "you", "nichi" >>,
       << "moku", "you" >>,  << "moku", "you", "nichi" >>,
       << "kin", "you" >>,   << "kin", "you", "nichi" >>,
       << "do", "you" >>,    << "do", "you", "nichi" >>,
       << "nichi", "you" >>, << "nichi", "you", "nichi" >> >>
InWeekdayMap(r) == \E k \in 1..Len(WeekdayNames) : WeekdayNames[k] = r
WeekdayMap(r) == ((CHOOSE k \in 1..Len(WeekdayNames) : WeekdayNames[k] = r) - 1) \div 2

\* form_utils line 107: delta = (target - today.weekday()) % 7
WeekdayDeltaNextWeek(target, wd) == IF target = wd THEN 7 ELSE (target - wd) % 7
WeekdayDelta(target, wd) == (target - wd) % 7

\* form_utils lines 83-84: the blank input returns today's date
NormalizeBlankReturnsRaw(r, td) == r
NormalizeBlank(r, td) == Strftime(td)

\* form_utils lines 112-117: the first format that parses wins
RECURSIVE TryFormats(_, _, _)
TryFormats(r, fmts, k) ==
    IF k > Len(fmts) THEN ParseError
    ELSE IF Strptime(r, fmts[k]) # ParseError THEN Strptime(r, fmts[k])
    ELSE TryFormats(r, fmts, k + 1)

\* normalize_date_for_html(value) when datetime.today() is td:
\* the string returned and whether the invalid-format warning was logged
NormalizeKeepInvalid(value, td) ==
    LET r == RawOf(value)
    IN IF r = << >>
       THEN [out |-> NormalizeBlank(r, td), warn |-> FALSE]
       ELSE IF InWeekdayMap(r)
       THEN [out |-> Strftime(AddDays(td, WeekdayDelta(WeekdayMap(r), Weekday(td)))),
             warn |-> FALSE]
       ELSE LET dt == TryFormats(r, DateFormats, 1)
            IN IF dt # ParseError
               THEN [out |-> Strftime(dt), warn |-> FALSE]
               ELSE [out |-> r, warn |-> FALSE]
Normalize(value, td) ==
    LET r == RawOf(value)
    IN IF r = << >>
       THEN [out |-> NormalizeBlank(r, td), warn |-> FALSE]
       ELSE IF InWeekdayMap(r)
       THEN [out |-> Strftime(AddDays(td, WeekdayDelta(WeekdayMap(r), Weekday(td)))),
             warn |-> FALSE]
       ELSE LET dt == TryFormats(r, DateFormats, 1)
            IN IF dt # ParseError
               THEN [out |-> Strftime(dt), warn |-> FALSE]
               ELSE [out |-> Strftime(td), warn |-> TRUE]

\* autofill.py lines 213-221: weekday_map of the copy of the normalizer
\* nested in _run_impl, as the list of its keys; the value of the k-th key
\* is (k - 1) \div 2
weekday_map_nested_sunday_first ==
    << << "nichi", "you" >>, << "nichi", "you", "nichi" >>,
       << "getsu", "you" >>, << "getsu", "you", "nichi" >>,
       << "ka", "you" >>,    << "ka", "you", "nichi" >>,
       << "sui", "you" >>,   << "sui", "you", "nichi" >>,
       << "moku", "you" >>,  << "moku", "you", "nichi" >>,
       << "kin", "you" >>,   << "kin", "you", "nichi" >>,
       << "do", "you" >>,    << "do", "you", "nichi" >> >>
weekday_map_nested ==
    << << "getsu", "you" >>, << "getsu", "you", "nichi" >>,
       << "ka", "you" >>,    << "ka", "you", "nichi" >>,
       << "sui", "you" >>,   << "sui", "you", "nichi" >>,
       << "moku", "you" >>,  << "moku", "you", "nichi" >>,
       << "kin", "you" >>,   << "kin", "you", "nichi" >>,
       << "do", "you" >>,    << "do", "you", "nichi" >>,
       << "nichi", "you" >>, << "nichi", "you", "nichi" >> >>

\* autofill.py line 231: the formats the nested copy tries, in order
DateFormatsNested == << << >>, << "/" >>, << "-" >> >>

\* autofill.py lines 206-238: the nested normalize_date_for_html(value)
\* when datetime.today() is td: the string returned and whether the
\* invalid-format warning was logged
NormalizeNestedKeepInvalid(value, td) ==
    LET r == Strip(IF value = NoneValue THEN << >> ELSE value)
    IN IF r = << >>
       THEN [out |-> Strftime(td), warn |-> FALSE]
       ELSE IF \E k \in 1..Len(weekday_map_nested) : weekday_map_nested[k] = r
       THEN LET k      == CHOOSE k \in 1..Len(weekday_map_nested) : weekday_map_nested[k] = r
                target == (k - 1) \div 2
                delta  == (target - Weekday(td)) % 7
            IN [out |-> Strftime(AddDays(td, delta)), warn |-> FALSE]
       ELSE LET dt == TryFormats(r, DateFormatsNested, 1)
            IN IF dt # ParseError
               THEN [out |-> Strftime(dt), warn |-> FALSE]
               ELSE [out |-> r, warn |-> FALSE]
NormalizeNested(value, td) ==
    LET r == Strip(IF value = NoneValue THEN << >> ELSE value)
    IN IF r = << >>
       THEN [out |-> Strftime(td), warn |-> FALSE]
       ELSE IF \E k \in 1..Len(weekday_map_nested) : weekday_map_nested[k] = r
       THEN LET k      == CHOOSE k \in 1..Len(weekday_map_nested) : weekday_map_nested[k] = r
                target == (k - 1) \div 2
                delta  == (target - Weekday(td)) % 7
            IN [out |-> Strftime(AddDays(td, delta)), warn |-> FALSE]
       ELSE LET dt == TryFormats(r, DateFormatsNested, 1)
            IN IF dt # ParseError
               THEN [out |-> Strftime(dt), warn |-> FALSE]
               ELSE [out |-> Strftime(td), warn |-> TRUE]

\* number of consecutive reference dates taken from each anchor
TodaySpan == 10
\* reference dates: a leap-day month end (2024-02-26 is a Monday; the span
\* reaches Wednesday 2024-03-06) and a year end
TodayAnchors == { Date(2024, 2, 26), Date(2024, 12, 27) }
Todays == { AddDays(a, k) : a \in TodayAnchors, k \in 0..(TodaySpan - 1) }

\* the three accepted spellings of a date
Compact(dt) == Pad(dt.y, 4) \o Pad(dt.m, 2) \o Pad(dt.d, 2)
Slashed(dt) == Pad(dt.y, 4) \o << "/" >> \o Pad(dt.m, 2) \o << "/" >> \o Pad(dt.d, 2)
Dashed(dt)  == Pad(dt.y, 4) \o << "-" >> \o Pad(dt.m, 2) \o << "-" >> \o Pad(dt.d, 2)

\* calendar dates given as input
InputDates ==
    { Date(2024, 3, 1), Date(2024, 2, 29), Date(2024, 12, 31), Date(2025, 1, 1),
      Date(2023, 11, 10), Date(2024, 10, 1) }

BlankInputs == { << >>, << " " >>, << " ", "\t", " " >>, NoneValue }

\* inputs in none of the shapes above: padded by blanks, not zero-padded,
\* no such day, short, not a date
OddInputs ==
    { << " ", "getsu", "you", " " >>,
      << "2","0","2","4","0","3","0","1"," " >>,
      << "2","0","2","4","-","3","-","1" >>,
      << "2","0","2","4","1","2" >>,
      << "2","0","2","4","/","0","2","/","3","0" >>,
      << "2","0","2","3","0","2","2","9" >>,
      << "3","/","1","/","2","0","2","4" >>,
      << "t","o","d","a","y" >>,
      << "getsu" >> }

RawInputs ==
    { WeekdayNames[k] : k \in 1..Len(WeekdayNames) }
      \cup BlankInputs
      \cup { Compact(dt) : dt \in InputDates }
      \cup { Slashed(dt) : dt \in InputDates }
      \cup { Dashed(dt) : dt \in InputDates }
      \cup OddInputs

\* what datetime.today() returns: a date and a time of day
Now(dt, h) == [date |-> dt, hour |-> h]
\* the hours of the day the clock is read at
Hours == { 0, 23 }
\* form_utils lines 84, 105-109, 120: strftime("%Y-%m-%d"), weekday() and
\* "+ timedelta(days=...)" use the date of the reading and not its time
ReferenceDateRounded(now) == IF now.hour >= 12 THEN NextDay(now.date) ELSE now.date
ReferenceDate(now) == now.date

\* validate_config lines 26-34
required_keys ==
    << "form_url", "event_name", "start_hour", "start_minute",
       "end_hour", "end_minute", "event_host" >>
RequiredKeySet == { required_keys[i] : i \in 1..Len(required_keys) }

\* validate_config line 36: missing = [key for key in required_keys if key not in config]
MissingKeysFirstOnly(keys) ==
    LET IsMissing(k) == k \notin keys
        all == SelectSeq(required_keys, IsMissing)
    IN IF all = << >> THEN << >> ELSE << all[1] >>
MissingKeys(keys) ==
    LET IsMissing(k) == k \notin keys
    IN SelectSeq(required_keys, IsMissing)

\* load_config lines 47-55: how reading the configuration file can end
ConfigFileOutcomes == { "ok", "FileNotFoundError", "JSONDecodeError" }

\* the locals start_date / end_date before line 246 has run
NoDate == << >>

\* _run_impl lines 247-250: a blank end_date input takes the start date that
\* was just computed; any other is normalized by a call of its own, which
\* reads the clock again (td)
EndDateRenormalized(end_raw, start, td) == NormalizeNested(end_raw, td)
EndDate(end_raw, start, td) ==
    IF RawOf(end_raw) # << >>
    THEN NormalizeNested(end_raw, td)
    ELSE [out |-> start, warn |-> FALSE]

\* values of config "start_date" / "end_date": missing or blank, a weekday
\* name, a date in an accepted spelling, and texts that are no date (a word,
\* the 30th of February)
RunStartInputs ==
    { << >>, NoneValue, << "getsu", "you" >>, Compact(Date(2024, 3, 1)),
      << "t","o","d","a","y" >> }
RunEndInputs ==
    { << >>, << " " >>, Dashed(Date(2024, 12, 31)),
      << "2","0","2","4","/","0","2","/","3","0" >> }
\* what datetime.today() returns at the first call of a pass (a Friday)
RunTodays == { Date(2024, 3, 1) }
\* the clock at a later call of the same pass: the same day, or midnight
\* has passed
LaterTodays(td) == { td, NextDay(td) }

\* _run_impl lines 314-334: an error that retry_func re-raises leaves the
\* try-block unless the call sits in one of the two fallback tiers
PropagatesFromIfLost(kind, message) == kind = "retry" \/ IsLostBrowser(message)
PropagatesFrom(kind, message) == kind = "retry"

\* _run_impl lines 252-267: the date handed to fill_datetime_by_label
DateArg(label, start, end) ==
    IF label = "start_datetime" THEN start
    ELSE IF label = "end_datetime" THEN end
    ELSE NoDate
\* line 264 is the last statement that reads start_date or end_date
LastDateRead(label) == label = "end_datetime"

\* index in FormSteps of the click on "next" (line 272)
NextClickStep == CHOOSE i \in 1..NumSteps : FormSteps[i].label = "next"

\* _run_impl lines 346-359: the handler decides from str(e) alone; the
\* statement that failed plays no part
IsSessionLossAfterNext(message, failed) ==
    IsLostBrowser(message) \/ failed > NextClickStep
IsSessionLoss(message, failed) == IsLostBrowser(message)

\* one finished statement of the try-block and how it ended
Done(i, ok) == [step |-> i, ok |-> ok]

NoFrame == [attempt |-> 0, last_exception |-> None, raised |-> << >>, logged |-> << >>]
NewFrame == [attempt |-> 1, last_exception |-> None, raised |-> << >>, logged |-> << >>]
NoEvent == [kind |-> "none"]

VARIABLES
    pc,            \* position: "main","prepare","launch","navigate","form","except","done"
    retry_count,   \* the retry_count argument of the current _run_impl invocation
    attempt,       \* loop variable of the launch loop
    driver,        \* local `driver`: "None", "open", or "quit" (quit was attempted)
    step,          \* index in FormSteps of the statement being executed
    failed_step,   \* the statement whose error is being handled (0: none)
    frame,         \* retry_func locals: attempt, last_exception (+ history of this call)
    exc,           \* the exception propagating to the except-handler
    status,        \* "running", "success" (exit 0), "failure" (exit 1)
    record_email,  \* config.get("record_the_email_address_to_reply")
    email_checked, \* aria-checked of the reply-email checkbox of the loaded form
    passes,        \* number of _run_impl invocations so far
    launches,      \* webdriver.Chrome(...) calls in the current invocation
    quits,         \* driver.quit() attempts since the current invocation was entered
    sweeps,        \* terminate_cft_processes() calls so far
    open_sessions, \* sessions launched and not yet asked to quit
    ev,            \* what the last step did (log lines, call result, classification)
    config_keys,   \* the required keys present in config.json
    start_date,    \* local `start_date` (line 246)
    end_date,      \* local `end_date` (lines 247-250)
    hist,          \* the statements of the try-block finished in this invocation
    \* --- cft_utils.terminate_cft_processes (one call) ---
    procs,         \* the processes psutil.process_iter yields, as their exe paths
    scan_i,        \* index in procs of the process the loop looks at next
    sweep_pc,      \* "idle", "scan", "returned"
    calls,         \* per process: the psutil calls issued on it, in order
    sweep_log,     \* log lines of the call
    sweep_raised,  \* did the call raise to its caller?
    \* --- normalize_date_for_html (one call, then a second on its result) ---
    raw,           \* the value argument
    today,         \* the date datetime.today() returns
    norm_pc,       \* "idle", "start", "once", "twice", "again", "nested"
    result,        \* the string returned
    warned,        \* was the invalid-format warning logged by the last call?
    hour,          \* the hour of day datetime.today() returns
    today_b,       \* a further call on the same value: the date of its clock,
    hour_b,        \*   the hour of its clock,
    result_b,      \*   the string it returned,
    warned_b,      \*   and whether it logged the warning
    \* --- form_utils.check_multiple_checkboxes_by_labels (one call) ---
    box_labels,    \* labels of the checkboxes find_elements returns, in order
    checked0,      \* labels whose aria-checked was "true" when the call began
    checked_set,   \* labels whose aria-checked is "true" now
    target_labels, \* the target_labels argument
    box_i,         \* index in box_labels of the checkbox the loop looks at next
    check_pc,      \* "idle", "find", "loop", "returned", "raised", "exhausted"
    clicks,        \* labels of the checkboxes clicked, in order
    check_log,     \* log lines of the call
    check_attempt, \* loop variable of retry_func around the call
    check_again,   \* is this the function run once more after it returned?
    first_checked, \* labels whose aria-checked was "true" before the first call
    toggled,       \* labels whose aria-checked was inverted, over all calls
    \* --- a task of retry_func statements, run once per log handler ---
    rf_max,        \* the max_retries argument of every retry_func call of the task
    rf_runs,       \* per LOG_HANDLER: the position and locals of the task run with it
    rf_outcomes,   \* what the operations invoked so far did, in order
    \* --- gui_main: AppController, its RunnerThread workers, the log sink ---
    runner_thread, \* AppController.runner_thread: 0 (None) or the worker it refers to
    workers,       \* per RunnerThread: position in run(), mode, how the task ended
    LOG_HANDLER,   \* form_utils.LOG_HANDLER: 0 (None) or the worker whose handler it is
    sig_queue,     \* finishedWithStatus emissions queued for the GUI thread
    window_status, \* text of the status label
    window_running,\* set_running: are the two run buttons disabled?
    config,        \* ConfigManager.config (what update_from_dict stored last)
    config_file,   \* the configuration file (what save wrote last)
    delivered,     \* log lines passed to a handler: whose handler, logged by whom
    gui_ev         \* what the last GUI-side step did

runVars == << pc, retry_count, attempt, driver, step, failed_step, frame, exc, status,
              record_email, email_checked, passes, launches, quits, sweeps,
              open_sessions, ev, config_keys, start_date, end_date, hist >>
sweepVars == << procs, scan_i, sweep_pc, calls, sweep_log, sweep_raised >>
normVars == << raw, today, norm_pc, result, warned,
              hour, today_b, hour_b, result_b, warned_b >>
checkVars == << box_labels, checked0, checked_set, target_labels, box_i, check_pc,
               clicks, check_log, check_attempt, check_again, first_checked,
               toggled >>
retryVars == << rf_max, rf_runs, rf_outcomes >>
guiVars == << runner_thread, workers, LOG_HANDLER, sig_queue, window_status,
             window_running, config, config_file, delivered, gui_ev >>
vars == << runVars, sweepVars, normVars, checkVars, retryVars, guiVars >>

\* the variables of a function that is not running in this specification
SweepIdle ==
    /\ procs = << >> /\ scan_i = 0 /\ sweep_pc = "idle"
    /\ calls = << >> /\ sweep_log = << >> /\ sweep_raised = FALSE
NormIdle ==
    /\ raw = << >> /\ today = 0 /\ norm_pc = "idle"
    /\ result = << >> /\ warned = FALSE
    /\ hour = 0 /\ today_b = 0 /\ hour_b = 0 /\ result_b = << >> /\ warned_b = FALSE

CheckIdle ==
    /\ box_labels = << >> /\ checked0 = {} /\ checked_set = {} /\ target_labels = {}
    /\ box_i = 0 /\ check_pc = "idle" /\ clicks = << >> /\ check_log = << >>
    /\ check_attempt = 0 /\ check_again = FALSE /\ first_checked = {}
    /\ toggled = << >>
RetryIdle ==
    /\ rf_max = 0 /\ rf_runs = << >> /\ rf_outcomes = << >>
GuiIdle ==
    /\ runner_thread = 0 /\ workers = << >> /\ LOG_HANDLER = 0 /\ sig_queue = << >>
    /\ window_status = "waiting" /\ window_running = FALSE
    /\ config = "none" /\ config_file = "none" /\ delivered = << >>
    /\ gui_ev = NoEvent

Init ==
    /\ pc = "main"
    /\ retry_count = 0
    /\ attempt = 0
    /\ driver = "None"
    /\ step = 0
    /\ failed_step = 0
    /\ frame = NoFrame
    /\ exc = None
    /\ status = "running"
    /\ record_email \in BOOLEAN
    /\ email_checked = FALSE
    /\ passes = 0
    /\ launches = 0
    /\ quits = 0
    /\ sweeps = 0
    /\ open_sessions = 0
    /\ ev = NoEvent
    /\ config_keys \in SUBSET RequiredKeySet
    /\ start_date = NoDate
    /\ end_date = NoDate
    /\ hist = << >>
    /\ SweepIdle
    /\ NormIdle
    /\ CheckIdle
    /\ RetryIdle
    /\ GuiIdle

\* sys.exit(code): the run ends with a status
Exit(code) ==
    /\ pc' = "done"
    /\ status' = IF code = 0 THEN "success" ELSE "failure"

(* ------------------------------------------------------------------ *)
(* main, load_config, validate_config                                  *)
(* ------------------------------------------------------------------ *)

\* main lines 406-407 with load_config (44-58) and validate_config (24-41):
\* the file is read, the required keys are checked, and only then
\* _run_impl(config, 0) is called
LoadConfig ==
    /\ pc = "main"
    /\ \E file \in ConfigFileOutcomes :
         IF file # "ok"
         THEN /\ Exit(1)
              /\ ev' = [kind |-> "load_config", file |-> file, missing |-> << >>,
                        lines |-> << Line("WARN", "load_config") >>]
         ELSE LET missing == MissingKeys(config_keys)
              IN IF missing # << >>
                 THEN /\ Exit(1)
                      /\ ev' = [kind |-> "load_config", file |-> file,
                                missing |-> missing,
                                lines |-> << Line("WARN", "validate_config") >>
                                          \o [i \in 1..Len(missing) |->
                                                Line("WARN", missing[i])]]
                 ELSE /\ pc' = "prepare"
                      /\ status' = status
                      /\ ev' = [kind |-> "load_config", file |-> file,
                                missing |-> missing, lines |-> << >>]
    /\ UNCHANGED << retry_count, attempt, driver, step, failed_step, frame, exc,
                    record_email, email_checked, passes, launches, quits, sweeps,
                    open_sessions, config_keys, start_date, end_date, hist >>
    /\ UNCHANGED << sweepVars, normVars, checkVars, retryVars, guiVars >>

(* ------------------------------------------------------------------ *)
(* _run_impl                                                           *)
(* ------------------------------------------------------------------ *)

\* _run_impl lines 60-98: entry of one invocation (one task pass): profile
\* directory, get_cft_paths(), Chrome options, driver = None
Prepare ==
    /\ pc = "prepare"
    /\ passes' = passes + 1
    /\ launches' = 0
    /\ quits' = 0
    /\ driver' = "None"
    /\ \E ok \in BOOLEAN :
         IF ok
         THEN /\ pc' = "launch"
              /\ attempt' = 1
              /\ status' = status
              /\ ev' = [kind |-> "prepare", ok |-> TRUE, lines |-> << >>]
         ELSE /\ Exit(1)
              /\ attempt' = attempt
              /\ ev' = [kind |-> "prepare", ok |-> FALSE,
                        lines |-> << Line("WARN", "_run_impl") >>]
    /\ hist' = << >>
    /\ start_date' = NoDate
    /\ end_date' = NoDate
    /\ UNCHANGED << retry_count, step, failed_step, frame, exc, record_email,
                    email_checked, sweeps, open_sessions, config_keys >>
    /\ UNCHANGED << sweepVars, normVars, checkVars, retryVars, guiVars >>

\* _run_impl lines 100-123: webdriver.Chrome(...) of one loop iteration
LaunchDriver ==
    /\ pc = "launch"
    /\ launches' = launches + 1
    /\ \E r \in {NoError} \cup LaunchErrors :
         IF r = NoError
         THEN /\ driver' = "open"
              /\ open_sessions' = open_sessions + 1
              /\ pc' = "navigate"
              /\ UNCHANGED << attempt, status >>
              /\ ev' = [kind |-> "launch", ok |-> TRUE, attempt |-> attempt,
                        lines |-> << >>]
         ELSE /\ ev' = [kind |-> "launch", ok |-> FALSE, attempt |-> attempt,
                        text |-> r, lines |-> << Line("WARN", "_run_impl") >>]
              /\ UNCHANGED << driver, open_sessions >>
              /\ IF LaunchErrorExits(r) \/ LaunchBudgetSpent(attempt)
                 THEN Exit(1) /\ attempt' = attempt
                 ELSE /\ attempt' = attempt + 1
                      /\ UNCHANGED << pc, status >>
    /\ UNCHANGED << retry_count, step, failed_step, frame, exc, record_email,
                    email_checked, passes, quits, sweeps,
                    config_keys, start_date, end_date, hist >>
    /\ UNCHANGED << sweepVars, normVars, checkVars, retryVars, guiVars >>

\* _run_impl lines 125-156: driver.get(form_url) of the same loop iteration
NavigateForm ==
    /\ pc = "navigate"
    /\ \E r \in {NoError} \cup NavErrors :
         IF r = NoError
         THEN /\ pc' = "form"
              /\ step' = RestartStep(failed_step)
              /\ failed_step' = 0
              /\ email_checked' \in BOOLEAN
              /\ UNCHANGED << attempt, driver, status, quits, open_sessions >>
              /\ ev' = [kind |-> "navigate", ok |-> TRUE, attempt |-> attempt,
                        lines |-> << Line("OK", "_run_impl") >>]
         ELSE IF IsWindowCrash(r)
         THEN \* log, driver.quit() (its error swallowed), then exit or relaunch
              /\ \E quit_raises \in BOOLEAN :
                   ev' = [kind |-> "navigate", ok |-> FALSE, attempt |-> attempt,
                          text |-> r, crash |-> TRUE, quit_raised |-> quit_raises,
                          swallowed |-> Swallowed(quit_raises, "driver.quit"),
                          lines |-> IF LaunchBudgetSpent(attempt)
                                    THEN << Line("WARN", "window_closed"), Line("WARN", "give_up") >>
                                    ELSE << Line("WARN", "window_closed") >>]
              /\ quits' = quits + 1
              /\ driver' = "quit"
              /\ open_sessions' = open_sessions - 1
              /\ UNCHANGED << step, failed_step, email_checked >>
              /\ IF LaunchBudgetSpent(attempt)
                 THEN Exit(1) /\ attempt' = attempt
                 ELSE /\ attempt' = attempt + 1
                      /\ pc' = "launch"
                      /\ status' = status
         ELSE /\ Exit(1)
              /\ UNCHANGED << attempt, driver, step, failed_step, email_checked,
                              quits, open_sessions >>
              /\ ev' = [kind |-> "navigate", ok |-> FALSE, attempt |-> attempt,
                        text |-> r, crash |-> FALSE, quit_raised |-> FALSE,
                        swallowed |-> << >>,
                        lines |-> << Line("WARN", "_run_impl") >>]
    /\ UNCHANGED << retry_count, frame, exc, record_email, passes, launches, sweeps,
                    config_keys, start_date, end_date, hist >>
    /\ UNCHANGED << sweepVars, normVars, checkVars, retryVars, guiVars >>

\* an error leaves the try-block: control goes to `except Exception as e`
RaiseToHandler(e) ==
    /\ pc' = "except"
    /\ exc' = e
    /\ failed_step' = step
    /\ step' = step

\* which click of the loop at lines 177-184 brings aria-checked to "true"
ClickEffects == { "first", "second", "never" }

\* _run_impl lines 175-191, once the checkbox was found: the block does
\* nothing unless config "record_the_email_address_to_reply" is truthy;
\* otherwise it reads the state, clicks at most twice while it is not
\* "true", and logs the final state
EmailBlockUnconditional(cfg, checked, effect) ==
    IF checked
    THEN [checked |-> TRUE, clicks |-> 0,
          lines |-> << Line("OK", "_run_impl"), Line("OK", "_run_impl") >>]
    ELSE IF effect = "first"
    THEN [checked |-> TRUE, clicks |-> 1,
          lines |-> << Line("OK", "_run_impl"), Line("OK", "_run_impl") >>]
    ELSE IF effect = "second"
    THEN [checked |-> TRUE, clicks |-> 2, lines |-> << Line("OK", "_run_impl") >>]
    ELSE [checked |-> FALSE, clicks |-> 2, lines |-> << Line("WARN", "_run_impl") >>]
EmailBlock(cfg, checked, effect) ==
    IF ~cfg
    THEN [checked |-> checked, clicks |-> 0, lines |-> << >>]
    ELSE IF checked
    THEN [checked |-> TRUE, clicks |-> 0,
          lines |-> << Line("OK", "_run_impl"), Line("OK", "_run_impl") >>]
    ELSE IF effect = "first"
    THEN [checked |-> TRUE, clicks |-> 1,
          lines |-> << Line("OK", "_run_impl"), Line("OK", "_run_impl") >>]
    ELSE IF effect = "second"
    THEN [checked |-> TRUE, clicks |-> 2, lines |-> << Line("OK", "_run_impl") >>]
    ELSE [checked |-> FALSE, clicks |-> 2, lines |-> << Line("WARN", "_run_impl") >>]

\* _run_impl lines 164-191: the inline reply-email checkbox block; the wait
\* for the checkbox (164-171) is not guarded, so its error leaves the
\* try-block
EmailCheckbox ==
    /\ pc = "form"
    /\ step \in 1..NumSteps
    /\ FormSteps[step].kind = "email"
    /\ \E r \in {NoError} \cup FormErrors, effect \in ClickEffects :
         /\ IF r = NoError
            THEN LET b == EmailBlock(record_email, email_checked, effect)
                 IN /\ step' = step + 1
                    /\ UNCHANGED << pc, exc, failed_step >>
                    /\ email_checked' = b.checked
                    /\ ev' = [kind |-> "email", ok |-> TRUE, was |-> email_checked,
                              text |-> NoError,
                              clicks |-> b.clicks, lines |-> b.lines]
            ELSE /\ RaiseToHandler(Exc(r, 0))
                 /\ email_checked' = email_checked
                 /\ ev' = [kind |-> "email", ok |-> FALSE, was |-> email_checked,
                           text |-> r,
                           clicks |-> 0, lines |-> << >>]
         /\ hist' = Append(hist, Done(step, r = NoError))
    /\ UNCHANGED << retry_count, attempt, driver, frame, status, record_email,
                    passes, launches, quits, sweeps, open_sessions,
                    config_keys, start_date, end_date >>
    /\ UNCHANGED << sweepVars, normVars, checkVars, retryVars, guiVars >>

\* _run_impl lines 243-250: start_raw and end_raw are read from the
\* configuration and normalized by the nested normalize_date_for_html
\* (lines 206-238, the statements of form_utils lines 71-120 repeated);
\* each call reads datetime.today() for itself. Nothing here raises.
NormalizeDates ==
    /\ pc = "form"
    /\ step \in 1..NumSteps
    /\ FormSteps[step].kind = "dates"
    /\ \E start_raw \in RunStartInputs, end_raw \in RunEndInputs,
          td \in RunTodays :
         \E td2 \in LaterTodays(td) :
            \E s \in { NormalizeNested(start_raw, td) } :
               \E e \in { EndDate(end_raw, s.out, td2) } :
                  LET W(cond) == IF cond THEN << Line("WARN", "normalize_date_for_html") >>
                                 ELSE << >>
                  IN /\ start_date' = s.out
                     /\ end_date' = e.out
                     /\ ev' = [kind |-> "dates", start_raw |-> start_raw,
                               end_raw |-> end_raw, today |-> td, today_end |-> td2,
                               start_warned |-> s.warn, end_warned |-> e.warn,
                               lines |-> W(s.warn) \o W(e.warn)]
    /\ step' = step + 1
    /\ hist' = Append(hist, Done(step, TRUE))
    /\ UNCHANGED << pc, exc, failed_step >>
    /\ UNCHANGED << retry_count, attempt, driver, frame, status, record_email,
                    email_checked, passes, launches, quits, sweeps, open_sessions,
                    config_keys >>
    /\ UNCHANGED << sweepVars, normVars, checkVars, retryVars, guiVars >>

\* _run_impl line 271: previous_section = driver.find_element(...)
FindSection ==
    /\ pc = "form"
    /\ step \in 1..NumSteps
    /\ FormSteps[step].kind = "find"
    /\ \E r \in {NoError} \cup FormErrors :
         /\ IF r = NoError
            THEN /\ step' = step + 1
                 /\ UNCHANGED << pc, exc, failed_step >>
                 /\ ev' = [kind |-> "find", ok |-> TRUE, lines |-> << >>]
            ELSE /\ RaiseToHandler(Exc(r, 0))
                 /\ ev' = [kind |-> "find", ok |-> FALSE, lines |-> << >>]
         /\ hist' = Append(hist, Done(step, r = NoError))
    /\ UNCHANGED << retry_count, attempt, driver, frame, status, record_email,
                    email_checked, passes, launches, quits, sweeps, open_sessions,
                    config_keys, start_date, end_date >>
    /\ UNCHANGED << sweepVars, normVars, checkVars, retryVars, guiVars >>

(* ------------------------------------------------------------------ *)
(* form_utils.retry_func, as called by the *_with_retry wrappers       *)
(* ------------------------------------------------------------------ *)

\* the containers //div[@role='list'] can locate: the one of the first
\* section and the one of the second
SectionContainers == { "section_1", "section_2" }
\* _run_impl line 271: previous_section, captured while the first section
\* is shown
previous_section == "section_1"

\* wait_for_form_section_change lines 354-356, given the container the
\* polls locate until the timeout: the wait returns once it differs from
\* previous_section and raises TimeoutException when it never does
SectionChangedIfSame(previous, located) ==
    IF located = previous THEN NoError ELSE msg_timeout
SectionChanged(previous, located) ==
    IF located # previous THEN NoError ELSE msg_timeout

\* what one invocation of the wrapped operation meets: the error it raises
\* (NoError: none) and, for the section wait, the container its polls locate
\* ("none": the session fails before a container is compared)
Trials(op) ==
    IF op = "wait_for_form_section_change"
    THEN { [r |-> SectionChanged(previous_section, c), located |-> c] :
             c \in SectionContainers }
         \cup { [r |-> e, located |-> "none"] : e \in FormErrors \ { msg_timeout } }
    ELSE { [r |-> e, located |-> "none"] : e \in {NoError} \cup FormErrors }

\* one iteration of the loop of retry_func (lines 57-64): one invocation of
\* the wrapped operation; on the last failing iteration also lines 66-68.
\* The wrapped operations (form_utils lines 155-359) log their own outcome
\* and re-raise.
RetryFuncAttempt ==
    /\ pc = "form"
    /\ step \in 1..NumSteps
    /\ FormSteps[step].kind \in {"retry", "tier1", "tier2"}
    /\ LET f    == IF frame = NoFrame THEN NewFrame ELSE frame
           n    == f.attempt
           op   == FormSteps[step].op
           kind == FormSteps[step].kind
           arg  == DateArg(FormSteps[step].label, start_date, end_date)
       IN \E trial \in Trials(op), overlay_raises \in OverlayWaitOutcomes(op) :
            LET r == trial.r IN
            IF r = NoError
            THEN \* func(...) returned: return True
                 /\ frame' = NoFrame
                 /\ step' = IF kind = "tier1" THEN step + 2 ELSE step + 1
                 /\ hist' = Append(hist, Done(step, TRUE))
                 /\ IF LastDateRead(FormSteps[step].label)
                    THEN start_date' = NoDate /\ end_date' = NoDate
                    ELSE UNCHANGED << start_date, end_date >>
                 /\ UNCHANGED << pc, exc, failed_step >>
                 /\ ev' = [kind |-> "call", step |-> step, op |-> op, arg |-> arg, located |-> trial.located,
                           result |-> "True", invocations |-> n,
                           raised |-> f.raised, exc |-> None,
                           logged |-> Append(f.logged, Len(OpLines(op, TRUE))),
                           swallowed |-> Swallowed(overlay_raises, "overlay_wait"),
                           lines |-> OpLines(op, TRUE)]
            ELSE LET e     == Exc(r, n)
                     le    == LastException(f.last_exception, e)
                     lines == OpLines(op, FALSE) \o << Line("WARN", "retry_func") >>
                     rs    == Append(f.raised, e)
                     lg    == Append(f.logged, Len(lines))
                 IN IF ~IsLastAttempt(n)
                    THEN /\ frame' = [attempt |-> n + 1, last_exception |-> le,
                                      raised |-> rs, logged |-> lg]
                         /\ UNCHANGED << pc, step, exc, failed_step, hist,
                                         start_date, end_date >>
                         /\ ev' = [kind |-> "attempt", step |-> step, op |-> op,
                                   arg |-> arg, located |-> trial.located, invocations |-> n,
                                   swallowed |-> Swallowed(overlay_raises, "overlay_wait"),
                                   lines |-> lines]
                    ELSE \* loop exhausted: log "max retries", raise last_exception
                         /\ frame' = NoFrame
                         /\ hist' = Append(hist, Done(step, FALSE))
                         /\ UNCHANGED << start_date, end_date >>
                         /\ ev' = [kind |-> "call", step |-> step, op |-> op,
                                   arg |-> arg, located |-> trial.located,
                                   result |-> "raised", invocations |-> n,
                                   raised |-> rs, exc |-> le, logged |-> lg,
                                   swallowed |-> Swallowed(overlay_raises, "overlay_wait")
                                                  \o Swallowed(~PropagatesFrom(kind, le.text), kind),
                                   lines |-> lines \o << Line("WARN", "retry_func_max") >>]
                         /\ IF PropagatesFrom(kind, le.text)
                            THEN RaiseToHandler(le)
                            ELSE \* lines 314-334: tier1 error -> tier2; tier2 error -> pass
                                 /\ step' = step + 1
                                 /\ UNCHANGED << pc, exc, failed_step >>
    /\ UNCHANGED << retry_count, attempt, driver, status, record_email,
                    email_checked, passes, launches, quits, sweeps, open_sessions,
                    config_keys >>
    /\ UNCHANGED << sweepVars, normVars, checkVars, retryVars, guiVars >>

\* _run_impl lines 343-344: log_success(...); sys.exit(0)
\* sys.exit(0) raises SystemExit inside the try-block; it passes the
\* `except Exception` clause and ends the process with status 0
Complete ==
    /\ pc = "form"
    /\ step = StepComplete
    /\ IF CaughtByExcept("SystemExit")
       THEN RaiseToHandler(Exc(msg_system_exit_0, 0)) /\ status' = status
       ELSE Exit(0) /\ UNCHANGED << step, failed_step, exc >>
    /\ ev' = [kind |-> "complete", lines |-> << Line("OK", "_run_impl") >>]
    /\ UNCHANGED << retry_count, attempt, driver, frame,
                    record_email, email_checked, passes, launches, quits, sweeps,
                    open_sessions, config_keys, start_date, end_date, hist >>
    /\ UNCHANGED << sweepVars, normVars, checkVars, retryVars, guiVars >>

\* _run_impl lines 345-396: except Exception as e
ExceptHandler ==
    /\ pc = "except"
    /\ LET message == exc.text
       IN IF IsSessionLoss(message, failed_step)
          THEN \* lines 360-389: log, driver.quit(), terminate_cft_processes(),
               \* then give up or run the whole function again
               /\ LET closes == CleansUp(RecoveryExhausted(retry_count)) /\ ShouldQuit(driver)
                  IN /\ quits' = IF closes THEN quits + 1 ELSE quits
                     /\ open_sessions' = IF closes /\ driver = "open"
                                         THEN open_sessions - 1 ELSE open_sessions
                     /\ driver' = IF closes THEN "quit" ELSE driver
               /\ sweeps' = IF CleansUp(RecoveryExhausted(retry_count))
                            THEN sweeps + 1 ELSE sweeps
               /\ \E quit_raises \in BOOLEAN :
                    ev' = [kind |-> "except", text |-> message, lost |-> TRUE,
                           step |-> failed_step, retry_count |-> retry_count,
                           quit_raised |-> quit_raises,
                           swallowed |-> Swallowed(quit_raises, "driver.quit"),
                           lines |-> IF RecoveryExhausted(retry_count)
                                     THEN << Line("WARN", "lost_browser"), Line("WARN", "give_up") >>
                                     ELSE << Line("WARN", "lost_browser") >>]
               /\ IF RecoveryExhausted(retry_count)
                  THEN Exit(1) /\ retry_count' = retry_count
                  ELSE /\ retry_count' = retry_count + 1
                       /\ pc' = "prepare"
                       /\ status' = status
          ELSE \* lines 391-396: any other error is an ordinary failure
               /\ Exit(1)
               /\ ev' = [kind |-> "except", text |-> message, lost |-> FALSE,
                         step |-> failed_step, retry_count |-> retry_count,
                         quit_raised |-> FALSE, swallowed |-> << >>,
                         lines |-> << Line("WARN", "form_error") >>]
               /\ UNCHANGED << retry_count, driver, quits, sweeps, open_sessions >>
    /\ UNCHANGED << attempt, step, failed_step, frame, exc, record_email,
                    email_checked, passes, launches,
                    config_keys, start_date, end_date, hist >>
    /\ UNCHANGED << sweepVars, normVars, checkVars, retryVars, guiVars >>

Next ==
    \/ LoadConfig
    \/ Prepare
    \/ LaunchDriver
    \/ NavigateForm
    \/ EmailCheckbox
    \/ NormalizeDates
    \/ FindSection
    \/ RetryFuncAttempt
    \/ Complete
    \/ ExceptHandler

Spec == Init /\ [][Next]_vars

\* the run as the interpreter executes it: a statement that can run does run
\* (the waits and sleeps of the code are all bounded by timeouts)
LiveSpec == Spec /\ WF_vars(Next)

TypeOK ==
    /\ pc \in {"main", "prepare", "launch", "navigate", "form", "except", "done"}
    /\ retry_count \in 0..MAX_LOST_BROWSER_RETRIES
    /\ attempt \in 0..LAUNCH_ATTEMPTS
    /\ driver \in {"None", "open", "quit"}
    /\ step \in 0..StepComplete
    /\ failed_step \in 0..StepComplete
    /\ status \in {"running", "success", "failure"}
    /\ (status = "running") <=> (pc # "done")

(* ------------------------------------------------------------------ *)
(* Claims                                                              *)
(* ------------------------------------------------------------------ *)

WindowCrashKeywords == << kw_no_such_window, kw_web_view_not_found >>
ProfileLockedKeywords == << kw_user_data_dir_in_use, kw_profile_in_use >>
CrashOnStartKeywords == << kw_devtools_port, kw_failed_to_start >>

\* C1: the recovery bound is strict. The task is invoked at most
\* MAX_LOST_BROWSER_RETRIES (3) times; the session-loss failure of the 3rd
\* pass ends the run with failure status; a run that reports success has
\* seen fewer than 3 session losses, so a task that would succeed on a 4th
\* pass never gets it.
C1_RecoveryBoundStrict ==
    /\ passes <= MAX_LOST_BROWSER_RETRIES
    /\ (passes > 0 /\ pc # "prepare") => passes = retry_count + 1
    /\ (ev.kind = "except" /\ ev.lost /\ sweeps = MAX_LOST_BROWSER_RETRIES)
          => (pc = "done" /\ status = "failure" /\ passes = MAX_LOST_BROWSER_RETRIES)
    /\ status = "success" => sweeps < MAX_LOST_BROWSER_RETRIES
    /\ sweeps <= MAX_LOST_BROWSER_RETRIES

\* C1 witness: the third pass lost its session and the run was aborted
C1_Witness ==
    /\ ev.kind = "except" /\ ev.lost
    /\ passes = 3 /\ sweeps = 3
    /\ status = "failure"

\* C2: an error reaching the except-handler whose text contains none of the
\* session-loss keywords ends the run at once with failure status: a line is
\* logged, nothing is closed or swept, no browser is launched and the task
\* is not invoked again, whatever retry_count is.
C2_OrdinaryErrorFailsAtOnce ==
    [][ (pc = "except" /\ ~MatchesAnyExact(exc.text, lost_browser_keywords))
        => /\ pc' = "done" /\ status' = "failure"
           /\ Len(ev'.lines) >= 1
           /\ \A i \in 1..Len(ev'.lines) : ev'.lines[i].level = "WARN"
           /\ sweeps' = sweeps /\ quits' = quits
           /\ launches' = launches /\ passes' = passes
           /\ retry_count' = retry_count ]_vars

\* C2 witness: an ordinary error ended a run that had already recovered twice
C2_Witness ==
    /\ ev.kind = "except" /\ ~ev.lost
    /\ ev.text = msg_timeout
    /\ retry_count = 2
    /\ status = "failure"

\* C3: on a session-loss error the handler attempts driver.quit() and
\* terminate_cft_processes() without launching anything, a re-invocation
\* gets retry_count + 1, every launch finds no session open and one sweep
\* per recovery already made, and the form-fill of the new pass starts from
\* a fresh launch+navigate at the first statement of the try-block.
C3_RecoveryRestartsWholeTask ==
    /\ [](pc = "launch" => (open_sessions = 0 /\ sweeps = retry_count))
    /\ [][ (pc = "except" /\ MatchesAnyExact(exc.text, lost_browser_keywords))
           => /\ quits' = quits + 1
              /\ sweeps' = sweeps + 1
              /\ launches' = launches
              /\ open_sessions' = 0
              /\ (pc' # "done" => (pc' = "prepare" /\ retry_count' = retry_count + 1)) ]_vars
    /\ [][ (pc # "form" /\ pc' = "form")
           => /\ pc = "navigate"
              /\ step' = 1
              /\ frame' = NoFrame
              /\ driver' = "open" /\ open_sessions' = 1
              /\ launches >= 1 ]_vars

\* C3 witness: the second pass has navigated and stands at the first form
\* statement although the first pass failed at a later one
C3_Witness ==
    /\ pc = "form" /\ step = 1
    /\ retry_count = 1 /\ sweeps = 1
    /\ ev.kind = "navigate" /\ ev.ok

\* C4 as claimed: an error whose text contains a session-loss keyword in any
\* letter case is classified as session loss (recovery path).
C4_CaseInsensitiveClaim ==
    (ev.kind = "except" /\ MatchesAnyIgnoreCase(ev.text, lost_browser_keywords))
       => ev.lost

\* C4 amended: the match is case-sensitive. The recovery path (sweep) is
\* taken exactly when the text contains a keyword in the keyword's own
\* letter case; a text that contains it only in another case is an ordinary
\* failure that ends the run.
C4_CaseSensitiveMatch ==
    [][ pc = "except"
        => /\ (MatchesAnyExact(exc.text, lost_browser_keywords) <=> sweeps' = sweeps + 1)
           /\ ((MatchesAnyIgnoreCase(exc.text, lost_browser_keywords)
                  /\ ~MatchesAnyExact(exc.text, lost_browser_keywords))
               => (pc' = "done" /\ status' = "failure" /\ sweeps' = sweeps)) ]_vars

\* C4 witness: "NO SUCH WINDOW" was handled as an ordinary failure
C4_Witness ==
    /\ ev.kind = "except"
    /\ ev.text = msg_NO_SUCH_WINDOW
    /\ ~ev.lost
    /\ status = "failure"

\* number of attempts of a retry_func call that put at least one line on the sink
AttemptsLogged(logged) == Cardinality({ i \in 1..Len(logged) : logged[i] >= 1 })

\* C5: a retry_func call that returns True after k failures made exactly
\* k+1 invocations, k < max_retries, and exactly k+1 attempts were logged.
C5_SuccessAfterKFailures ==
    (ev.kind = "call" /\ ev.result = "True")
       => /\ Len(ev.raised) < max_retries
          /\ ev.invocations = Len(ev.raised) + 1
          /\ Len(ev.logged) = Len(ev.raised) + 1
          /\ AttemptsLogged(ev.logged) = Len(ev.raised) + 1

\* C6: a retry_func call that raises has invoked the operation exactly
\* max_retries times, its last log line is the "max retries reached" line,
\* and the error it raises is the object raised by the last attempt.
C6_ExhaustionReraisesLast ==
    (ev.kind = "call" /\ ev.result = "raised")
       => /\ ev.invocations = max_retries
          /\ Len(ev.raised) = max_retries
          /\ ev.exc = ev.raised[max_retries]
          /\ ev.exc.at = max_retries
          /\ ev.lines[Len(ev.lines)] = Line("WARN", "retry_func_max")
          /\ \A i \in 1..(Len(ev.lines) - 1) : ev.lines[i] # Line("WARN", "retry_func_max")
          /\ (FormSteps[ev.step].kind = "retry" => (pc = "except" /\ exc = ev.exc))

\* C6 witness: three failing attempts with different errors, the last re-raised
C6_Witness ==
    /\ ev.kind = "call" /\ ev.result = "raised"
    /\ ev.raised[1].text # ev.raised[3].text
    /\ ev.raised[2].text # ev.raised[3].text
    /\ pc = "except" /\ exc.text = ev.raised[3].text

\* C7: every attempt made through retry_func, successful or failed, puts at
\* least one line on the logging sink.
C7_EveryAttemptLogged ==
    /\ (ev.kind = "attempt" => Len(ev.lines) >= 1)
    /\ (ev.kind = "call" => \A i \in 1..Len(ev.logged) : ev.logged[i] >= 1)

\* C8: within one pass the browser is launched at most 3 times; a relaunch
\* follows only a navigation error carrying a window-crash keyword, after
\* quit was attempted on the crashed driver; any other navigation error and
\* a crash on the 3rd attempt end the run with failure.
C8_LaunchBudget ==
    /\ [](launches <= 3)
    /\ [][ (launches' = launches + 1 /\ launches >= 1)
           => /\ ev.kind = "navigate" /\ ~ev.ok
              /\ MatchesAnyExact(ev.text, WindowCrashKeywords)
              /\ driver = "quit" /\ quits = launches /\ open_sessions = 0 ]_vars
    /\ [][ (pc = "navigate" /\ ev'.kind = "navigate" /\ ~ev'.ok
              /\ ~MatchesAnyExact(ev'.text, WindowCrashKeywords))
           => /\ pc' = "done" /\ status' = "failure"
              /\ quits' = quits /\ launches' = launches ]_vars
    /\ []((ev.kind = "navigate" /\ ~ev.ok /\ ev.attempt = 3)
          => (pc = "done" /\ status = "failure"))

\* C8 witness: the third launch of a pass crashed during navigation
C8_Witness ==
    /\ ev.kind = "navigate" /\ ~ev.ok /\ ev.crash
    /\ launches = 3 /\ quits = 3
    /\ status = "failure"

\* C9: a launch failing with a profile-locked or crash-on-start error ends
\* the run with failure in that very step: no further launch, no sweep, no
\* new pass; nothing happens after the run has ended.
C9_KnownLaunchErrorTerminal ==
    /\ [][ (pc = "launch" /\ ev'.kind = "launch" /\ ~ev'.ok
              /\ (MatchesAnyExact(ev'.text, ProfileLockedKeywords)
                     \/ MatchesAnyExact(ev'.text, CrashOnStartKeywords)))
           => /\ pc' = "done" /\ status' = "failure"
              /\ launches' = launches + 1
              /\ sweeps' = sweeps /\ passes' = passes
              /\ retry_count' = retry_count ]_vars
    /\ [][ pc # "done" ]_vars

\* C9 witness: a launch met a locked profile and the run failed
C9_Witness ==
    /\ ev.kind = "launch" /\ ~ev.ok
    /\ ev.text = msg_profile_locked
    /\ launches = 1
    /\ status = "failure"

\* a launch error text of the 'unknown' kind
UnknownLaunchError(text) ==
    /\ ~MatchesAnyExact(text, ProfileLockedKeywords)
    /\ ~MatchesAnyExact(text, CrashOnStartKeywords)

\* C10 as claimed: a launch failing with an 'unknown' error before the 3rd
\* attempt is retried (the launch loop goes on and the run has not failed).
C10_UnknownLaunchRetriedClaim ==
    (ev.kind = "launch" /\ ~ev.ok /\ UnknownLaunchError(ev.text) /\ ev.attempt < 3)
       => (pc = "launch" /\ status = "running")

\* C10 amended: a launch failing with an 'unknown' error is not retried
\* either: it ends the run with failure after that single launch attempt.
C10_UnknownLaunchTerminal ==
    [][ (pc = "launch" /\ ev'.kind = "launch" /\ ~ev'.ok
           /\ UnknownLaunchError(ev'.text))
        => /\ pc' = "done" /\ status' = "failure"
           /\ launches' = launches + 1
           /\ attempt' = attempt
           /\ sweeps' = sweeps /\ passes' = passes ]_vars

\* C10 witness: the first launch failed with an unknown error and the run failed
C10_Witness ==
    /\ ev.kind = "launch" /\ ~ev.ok
    /\ ev.text = msg_unknown_launch
    /\ ev.attempt = 1 /\ launches = 1
    /\ status = "failure"

\* C11: at most one session is open at any time; every launch, in the
\* launch loop and in a recovery pass alike, happens when no session
\* launched earlier is still waiting for its quit.
C11_AtMostOneSession ==
    /\ [](open_sessions \in {0, 1})
    /\ [](driver = "open" => open_sessions = 1)
    /\ [][ pc = "launch" => (open_sessions = 0 /\ driver # "open") ]_vars
    /\ [][ open_sessions' > open_sessions
           => (pc = "launch" /\ open_sessions = 0 /\ open_sessions' = 1) ]_vars

\* C11 witness: a relaunch inside the second pass holds the only session
C11_Witness ==
    /\ ev.kind = "launch" /\ ev.ok
    /\ retry_count = 1 /\ launches = 2
    /\ open_sessions = 1

\* C12: a pass that completed every form statement logs one success line
\* and ends the run with success status; the session stays open, nothing
\* is quit or swept, the except-handler is not entered and no pass follows.
C12_SuccessLeavesSessionOpen ==
    /\ [][ (pc = "form" /\ step = StepComplete)
           => /\ pc' = "done" /\ status' = "success"
              /\ ev'.lines = << Line("OK", "_run_impl") >>
              /\ driver' = "open" /\ open_sessions' = 1
              /\ quits' = quits /\ sweeps' = sweeps
              /\ passes' = passes /\ retry_count' = retry_count ]_vars
    /\ [](pc = "except" => failed_step \in 1..NumSteps)
    /\ [](status = "success" => ev.kind = "complete")

\* C12 witness: the run succeeded in its second pass with the browser left open
C12_Witness ==
    /\ status = "success"
    /\ ev.kind = "complete"
    /\ retry_count = 1
    /\ driver = "open" /\ open_sessions = 1

\* a log line reporting a failed driver.quit()
CloseFailureLogged(lines) == \E i \in 1..Len(lines) : lines[i].by = "quit_failed"

\* C15: a driver.quit() that raises is logged and not raised, and handling
\* goes on as after a successful quit: in the except-handler the sweep and
\* the recovery decision, in the launch loop the relaunch or the exit.
C15_CloseFailureSwallowedAndLogged ==
    /\ (ev.kind = "except" /\ ev.lost /\ ev.quit_raised)
          => /\ CloseFailureLogged(ev.lines)
             /\ sweeps = ev.retry_count + 1
             /\ pc \in {"prepare", "done"}
    /\ (ev.kind = "navigate" /\ ~ev.ok /\ ev.quit_raised)
          => /\ CloseFailureLogged(ev.lines)
             /\ pc \in {"launch", "done"}

\* is there a log line for an error swallowed at this site?
LoggedFor(site, lines) ==
    \E i \in 1..Len(lines) :
        lines[i].by = (CASE site = "driver.quit"  -> "quit_failed"
                         [] site = "overlay_wait" -> "overlay_wait_failed"
                         [] OTHER                 -> "retry_func_max")

\* C16: every error that is caught and not re-raised (close failure, both
\* tiers of the overseas field, the overlay wait before a click) has a log line.
C16_NoSilentDrop ==
    ((ev.kind \in {"attempt", "call", "except"})
        \/ (ev.kind = "navigate" /\ ~ev.ok))
       => \A k \in 1..Len(ev.swallowed) : LoggedFor(ev.swallowed[k], ev.lines)

(* ------------------------------------------------------------------ *)
(* cft_utils.terminate_cft_processes                                   *)
(* ------------------------------------------------------------------ *)

\* _base_dir(): the directory of the executable / script
\* "C:\App"
base_dir ==
    <<"C",":","\\","A","p","p">>
\* "cft"
name_cft ==
    <<"c","f","t">>
\* "chrome-win64"
name_chrome_win64 ==
    <<"c","h","r","o","m","e","-","w","i","n","6","4">>
\* "chromedriver-win64"
name_chromedriver_win64 ==
    <<"c","h","r","o","m","e","d","r","i","v","e","r","-","w","i","n","6","4">>
\* "C:\App\cft\chrome-win64\chrome.exe"
exe_cft_chrome ==
    <<"C",":","\\","A","p","p","\\","c","f","t","\\","c","h","r","o","m","e","-","w","i","n","6","4","\\","c","h","r","o","m","e",".","e","x","e">>
\* "C:\App\cft\chromedriver-win64\chromedriver.exe"
exe_cft_driver ==
    <<"C",":","\\","A","p","p","\\","c","f","t","\\","c","h","r","o","m","e","d","r","i","v","e","r","-","w","i","n","6","4","\\","c","h","r","o","m","e","d","r","i","v","e","r",".","e","x","e">>
\* "c:/app/CFT/chrome-win64/chrome.exe"
exe_cft_chrome_other_spelling ==
    <<"c",":","/","a","p","p","/","C","F","T","/","c","h","r","o","m","e","-","w","i","n","6","4","/","c","h","r","o","m","e",".","e","x","e">>
\* "C:\App\cft\chrome-win64-old\chrome.exe"
exe_prefix_sharer ==
    <<"C",":","\\","A","p","p","\\","c","f","t","\\","c","h","r","o","m","e","-","w","i","n","6","4","-","o","l","d","\\","c","h","r","o","m","e",".","e","x","e">>
\* "C:\Program Files\Chrome\chrome.exe"
exe_user_chrome ==
    <<"C",":","\\","P","r","o","g","r","a","m"," ","F","i","l","e","s","\\","C","h","r","o","m","e","\\","c","h","r","o","m","e",".","e","x","e">>

\* proc.info.get("exe") or "": a process without an executable path
exe_none == << >>

\* os.path.join(a, b) on Windows for a relative b
PathJoin(a, b) == a \o << "\\" >> \o b

\* os.path.normcase on Windows: lower case, "/" replaced by "\"
NormCase(path) ==
    [i \in 1..Len(path) |-> IF path[i] = "/" THEN "\\" ELSE LowerChar(path[i])]

\* cft_utils._cft_root and lines 36-38 of terminate_cft_processes
cft_root == PathJoin(base_dir, name_cft)
chrome_dir == NormCase(PathJoin(cft_root, name_chrome_win64))
driver_dir == NormCase(PathJoin(cft_root, name_chromedriver_win64))

\* str.startswith
StartsWith(str, prefix) ==
    /\ Len(prefix) <= Len(str)
    /\ SubSeq(str, 1, Len(prefix)) = prefix

\* lines 42-48 and 62: is the process a target of the sweep?
IsTargetNever(exe) == FALSE
IsTarget(exe) ==
    /\ exe # exe_none
    /\ \/ StartsWith(NormCase(exe), chrome_dir)
       \/ StartsWith(NormCase(exe), driver_dir)

\* lines 52 and 66: except psutil.TimeoutExpired -> proc.kill()
NeedsKillAlways(wait_outcome) == TRUE
NeedsKill(wait_outcome) == wait_outcome = "TimeoutExpired"

\* lines 50, 56, 64, 70: except (psutil.NoSuchProcess, psutil.AccessDenied)
IsSkipErrorNoSuchOnly(outcome) == outcome = "NoSuchProcess"
IsSkipError(outcome) == outcome \in {"NoSuchProcess", "AccessDenied"}

\* outcomes of proc.terminate() and proc.kill(); "OSError" stands for any
\* other Exception psutil lets through
CallOutcomes == {"ok", "NoSuchProcess", "AccessDenied", "OSError"}
\* outcomes of proc.wait(timeout=5)
WaitOutcomes == {"ok", "TimeoutExpired", "NoSuchProcess"}

\* the executables a running process can have
Exes ==
    { exe_cft_chrome, exe_cft_driver, exe_cft_chrome_other_spelling,
      exe_prefix_sharer, exe_user_chrome, exe_none }

\* number of processes process_iter yields
MaxProcs == 2

ProcLists == UNION { [1..n -> Exes] : n \in 0..MaxProcs }

RunIdle ==
    /\ pc = "idle" /\ retry_count = 0 /\ attempt = 0 /\ driver = "None"
    /\ step = 0 /\ failed_step = 0 /\ frame = NoFrame /\ exc = None
    /\ status = "running" /\ record_email = FALSE /\ email_checked = FALSE
    /\ passes = 0 /\ launches = 0 /\ quits = 0 /\ sweeps = 0
    /\ open_sessions = 0 /\ ev = NoEvent
    /\ config_keys = {} /\ start_date = NoDate /\ end_date = NoDate /\ hist = << >>

\* the call of terminate_cft_processes() with some set of running processes
SweepInit ==
    /\ RunIdle
    /\ NormIdle
    /\ CheckIdle
    /\ RetryIdle
    /\ GuiIdle
    /\ procs \in ProcLists
    /\ scan_i = 1
    /\ sweep_pc = "scan"
    /\ calls = [i \in 1..Len(procs) |-> << >>]
    /\ sweep_log = << >>
    /\ sweep_raised = FALSE

\* an error leaves the for-loop: lines 72-75, except Exception -> log_failure
SweepAbort(cls, issued) ==
    /\ calls' = [calls EXCEPT ![scan_i] = issued]
    /\ sweep_pc' = "returned"
    /\ sweep_raised' = ~CaughtByExcept(cls)
    /\ sweep_log' = IF CaughtByExcept(cls)
                    THEN Append(sweep_log, Line("WARN", "terminate_cft_processes"))
                    ELSE sweep_log
    /\ scan_i' = scan_i

\* the loop goes on with the next process
SweepContinue(issued) ==
    /\ calls' = [calls EXCEPT ![scan_i] = issued]
    /\ scan_i' = scan_i + 1
    /\ UNCHANGED << sweep_pc, sweep_raised, sweep_log >>

\* lines 40-70: one iteration of `for proc in psutil.process_iter(...)`
SweepProcess ==
    /\ sweep_pc = "scan"
    /\ scan_i <= Len(procs)
    /\ IF ~IsTarget(procs[scan_i])
       THEN SweepContinue(<< >>)
       ELSE \E t \in CallOutcomes, w \in WaitOutcomes, k \in CallOutcomes :
              IF t # "ok"
              THEN IF IsSkipError(t)
                   THEN SweepContinue(<< "terminate:" \o t >>)
                   ELSE SweepAbort(t, << "terminate:" \o t >>)
              ELSE IF ~NeedsKill(w)
              THEN \* wait returned, or the process vanished while waiting
                   SweepContinue(<< "terminate:ok", "wait:" \o w >>)
              ELSE IF k = "ok" \/ IsSkipError(k)
                   THEN SweepContinue(<< "terminate:ok", "wait:" \o w, "kill:" \o k >>)
                   ELSE SweepAbort(k, << "terminate:ok", "wait:" \o w, "kill:" \o k >>)
    /\ UNCHANGED << procs, runVars, normVars, checkVars, retryVars, guiVars >>

\* the for-loop is exhausted: the function returns None
SweepReturn ==
    /\ sweep_pc = "scan"
    /\ scan_i = Len(procs) + 1
    /\ sweep_pc' = "returned"
    /\ UNCHANGED << procs, scan_i, calls, sweep_log, sweep_raised, runVars, normVars, checkVars, retryVars, guiVars >>

SweepNext ==
    \/ SweepProcess
    \/ SweepReturn

SweepSpec == SweepInit /\ [][SweepNext]_vars

\* is the path inside the directory (the directory itself or below it)?
Rooted(exe, dir) ==
    LET n == NormCase(exe)
    IN /\ StartsWith(n, dir)
       /\ (Len(n) = Len(dir) \/ n[Len(dir) + 1] = "\\")
RootedInCft(exe) ==
    /\ exe # exe_none
    /\ (Rooted(exe, chrome_dir) \/ Rooted(exe, driver_dir))

\* C13: the sweep issues no call on a process whose executable is not
\* rooted under cft\chrome-win64 or cft\chromedriver-win64 (a path sharing
\* only the name prefix and a process without a path included), and it
\* attempts termination of every process rooted there.
C13_SweepScopedToCftDirs ==
    \A i \in 1..Len(procs) :
       /\ calls[i] # << >> => RootedInCft(procs[i])
       /\ (RootedInCft(procs[i]) /\ (i < scan_i \/ sweep_pc = "returned"))
             => calls[i] # << >>

\* C14: on each target the sweep calls terminate first, then wait, and kill
\* only after the wait timed out; a process that vanished or denies access
\* is skipped and the loop goes on with the next one; the call never raises.
C14_GracefulThenKill ==
    /\ sweep_raised = FALSE
    /\ \A i \in 1..Len(procs) :
          /\ Len(calls[i]) <= 3
          /\ Len(calls[i]) >= 1 => calls[i][1] \in { "terminate:" \o t : t \in CallOutcomes }
          /\ Len(calls[i]) >= 2 => (calls[i][1] = "terminate:ok"
                                     /\ calls[i][2] \in { "wait:" \o w : w \in WaitOutcomes })
          /\ Len(calls[i]) = 3 => (calls[i][2] = "wait:TimeoutExpired"
                                    /\ calls[i][3] \in { "kill:" \o k : k \in CallOutcomes })
          /\ (Len(calls[i]) >= 1
                /\ calls[i][Len(calls[i])] \in { "terminate:NoSuchProcess", "terminate:AccessDenied",
                                                 "kill:NoSuchProcess", "kill:AccessDenied" })
                => scan_i > i
          /\ (calls[i] = << "terminate:ok", "wait:TimeoutExpired" >>) => FALSE

\* C14 witness: the first target denied access, the scan went on, the second
\* target outlived the wait and was killed, and the call returned
C14_Witness ==
    /\ sweep_pc = "returned"
    /\ Len(procs) >= 2
    /\ calls[1] = << "terminate:AccessDenied" >>
    /\ calls[2] = << "terminate:ok", "wait:TimeoutExpired", "kill:ok" >>
    /\ ~sweep_raised

(* ------------------------------------------------------------------ *)
(* one call of normalize_date_for_html, and a second on its result     *)
(* ------------------------------------------------------------------ *)

\* a call normalize_date_for_html(raw) at hour `hour` of the day `today`
NormInit ==
    /\ RunIdle
    /\ SweepIdle
    /\ CheckIdle
    /\ RetryIdle
    /\ GuiIdle
    /\ raw \in RawInputs
    /\ today \in Todays
    /\ hour \in Hours
    /\ norm_pc = "start"
    /\ result = << >>
    /\ warned = FALSE
    /\ today_b = 0 /\ hour_b = 0 /\ result_b = << >> /\ warned_b = FALSE

\* normalize_date_for_html(raw)
NormalizeCall ==
    /\ norm_pc = "start"
    /\ result' = Normalize(raw, ReferenceDate(Now(today, hour))).out
    /\ warned' = Normalize(raw, ReferenceDate(Now(today, hour))).warn
    /\ norm_pc' = "once"
    /\ UNCHANGED << raw, today, hour, today_b, hour_b, result_b, warned_b,
                    runVars, sweepVars, checkVars, retryVars, guiVars >>

\* normalize_date_for_html(result): the output normalized again, same day
Renormalize ==
    /\ norm_pc = "once"
    /\ result' = Normalize(result, ReferenceDate(Now(today, hour))).out
    /\ warned' = Normalize(result, ReferenceDate(Now(today, hour))).warn
    /\ norm_pc' = "twice"
    /\ UNCHANGED << raw, today, hour, today_b, hour_b, result_b, warned_b,
                    runVars, sweepVars, checkVars, retryVars, guiVars >>

\* normalize_date_for_html(raw) once more, at a later reading of the clock
\* (the same day or the next, any hour)
NormalizeAgain ==
    /\ norm_pc = "once"
    /\ \E d2 \in LaterTodays(today), h2 \in Hours :
         /\ today_b' = d2
         /\ hour_b' = h2
         /\ result_b' = Normalize(raw, ReferenceDate(Now(d2, h2))).out
         /\ warned_b' = Normalize(raw, ReferenceDate(Now(d2, h2))).warn
    /\ norm_pc' = "again"
    /\ UNCHANGED << raw, today, hour, result, warned, runVars, sweepVars, checkVars, retryVars, guiVars >>

\* the normalize_date_for_html nested in _run_impl (autofill.py 206-238),
\* called on the same value at the same reading of the clock
NormalizeNestedCall ==
    /\ norm_pc = "once"
    /\ \E n \in { NormalizeNested(raw, ReferenceDate(Now(today, hour))) } :
         /\ result_b' = n.out
         /\ warned_b' = n.warn
    /\ today_b' = today
    /\ hour_b' = hour
    /\ norm_pc' = "nested"
    /\ UNCHANGED << raw, today, hour, result, warned, runVars, sweepVars, checkVars, retryVars, guiVars >>

NormNext ==
    \/ NormalizeCall
    \/ Renormalize
    \/ NormalizeAgain
    \/ NormalizeNestedCall

NormSpec == NormInit /\ [][NormNext]_vars

\* is the string of the shape YYYY-MM-DD (ten characters, digits and dashes)?
IsCanonical(str) ==
    /\ Len(str) = 10
    /\ \A i \in {1, 2, 3, 4, 6, 7, 9, 10} : IsDigit(str[i])
    /\ str[5] = "-" /\ str[8] = "-"
\* the date a YYYY-MM-DD string denotes
DateOfCanonical(str) ==
    Date(NumVal(SubSeq(str, 1, 4)), NumVal(SubSeq(str, 6, 7)), NumVal(SubSeq(str, 9, 10)))

\* "2024-03-11" and "2024-03-01"
str_2024_03_11 == << "2","0","2","4","-","0","3","-","1","1" >>
str_2024_03_01 == << "2","0","2","4","-","0","3","-","0","1" >>

\* C17: for each of the 14 weekday names W and every reference date D the
\* result is a date r with D <= r <= D+6 whose weekday is W, and r = D when
\* D falls on W.
C17_WeekdayOnOrAfterToday ==
    norm_pc = "once" =>
       \A k \in 1..Len(WeekdayNames) :
          raw = WeekdayNames[k] =>
             LET r == DateOfCanonical(result)
                 w == (k - 1) \div 2
             IN /\ IsCanonical(result)
                /\ ~warned
                /\ ToOrdinal(r) >= ToOrdinal(today)
                /\ ToOrdinal(r) <= ToOrdinal(today) + 6
                /\ r.m \in 1..12 /\ r.d \in 1..DaysInMonth(r.y, r.m)
                /\ Weekday(r) = w
                /\ (Weekday(today) = w => r = today)

\* C17 witness: "Monday" on Wednesday 2024-03-06 gives 2024-03-11
C17_Witness ==
    /\ norm_pc = "once"
    /\ raw = << "getsu", "you" >>
    /\ today = Date(2024, 3, 6)
    /\ Weekday(today) = 2
    /\ result = str_2024_03_11

\* C18: normalizing the returned string again returns the same string and
\* logs no invalid-format warning, for every input and reference date.
C18_IdempotentOnOutput ==
    [][ norm_pc = "once"
        => /\ IsCanonical(result)
           /\ norm_pc' = "twice" => (result' = result /\ ~warned') ]_vars

\* C18 witness: an invalid input fell back to today with a warning, and the
\* second normalization returned the same string without one
C18_Witness ==
    /\ norm_pc = "twice"
    /\ raw = << "t", "o", "d", "a", "y" >>
    /\ today = Date(2024, 3, 1)
    /\ result = str_2024_03_01
    /\ ~warned

\* C19: every blank input (empty, whitespace only, missing) returns the
\* reference date.
C19_BlankIsToday ==
    (norm_pc = "once" /\ raw \in BlankInputs)
       => /\ IsCanonical(result)
          /\ DateOfCanonical(result) = today

\* C19 witness: a whitespace-only input on 2024-03-01
C19_Witness ==
    /\ norm_pc = "once"
    /\ raw = << " ", "\t", " " >>
    /\ today = Date(2024, 3, 1)
    /\ result = str_2024_03_01

\* C20: the compact, slash and dash spellings of a calendar date all
\* return the YYYY-MM-DD string of that date, whatever the reference date.
C20_ThreeSpellingsAgree ==
    norm_pc = "once" =>
       \A dt \in InputDates :
          raw \in { Compact(dt), Slashed(dt), Dashed(dt) }
             => /\ IsCanonical(result)
                /\ DateOfCanonical(result) = dt
                /\ ~warned

\* C20 witness: "2024/03/01" read on another day
C20_Witness ==
    /\ norm_pc = "once"
    /\ raw = << "2","0","2","4","/","0","3","/","0","1" >>
    /\ today = Date(2024, 12, 31)
    /\ result = str_2024_03_01

\* texts given as a date that are no weekday name and in no accepted format
InvalidDateTexts ==
    { << "t","o","d","a","y" >>, << "2","0","2","4","/","0","2","/","3","0" >> }

\* C21: a date input that is not blank, not a weekday name and in none of
\* the accepted formats does not fail the pass: the warning is logged, the
\* date the clock shows is used in its place, and the pass goes on with
\* the next statement (the start date+time group).
C21_InvalidDateNonFatal ==
    ev.kind = "dates" =>
       /\ pc = "form" /\ status = "running"
       /\ FormSteps[step].label = "start_datetime"
       /\ hist[Len(hist)] = Done(step - 1, TRUE)
       /\ ev.start_raw \in InvalidDateTexts
             => /\ ev.start_warned
                /\ Len(ev.lines) >= 1 /\ ev.lines[1].level = "WARN"
                /\ IsCanonical(start_date)
                /\ DateOfCanonical(start_date) = ev.today
       /\ ev.end_raw \in InvalidDateTexts
             => /\ ev.end_warned
                /\ Len(ev.lines) >= 1 /\ ev.lines[Len(ev.lines)].level = "WARN"
                /\ IsCanonical(end_date)
                /\ DateOfCanonical(end_date) = ev.today_end

\* C21 witness: start_date "today" was replaced by 2024-03-01 with a
\* warning and the start date+time group is next
C21_Witness ==
    /\ ev.kind = "dates"
    /\ ev.start_raw = << "t","o","d","a","y" >>
    /\ ev.today = Date(2024, 3, 1)
    /\ ev.start_warned
    /\ start_date = str_2024_03_01
    /\ pc = "form" /\ FormSteps[step].label = "start_datetime"

\* C22: whenever the end_date input is blank, the end date handed to the
\* form is the start date that was just normalized, whatever the
\* start_date input is (so start <= end); with both blank both are the
\* date the clock showed when the start date was computed.
C22_BlankEndIsStart ==
    /\ [](ev.kind = "dates" /\ ev.end_raw \in BlankInputs
             => /\ IsCanonical(start_date)
                /\ end_date = start_date
                /\ ~ev.end_warned
                /\ ToOrdinal(DateOfCanonical(start_date))
                      <= ToOrdinal(DateOfCanonical(end_date))
                /\ ev.start_raw \in BlankInputs
                      => /\ DateOfCanonical(start_date) = ev.today
                         /\ DateOfCanonical(end_date) = ev.today)
    /\ [][ (pc' = "form" /\ ev'.kind \in {"call", "attempt"})
              => /\ FormSteps[ev'.step].label = "start_datetime"
                    => (ev'.arg = start_date /\ ev'.arg # NoDate)
                 /\ FormSteps[ev'.step].label = "end_datetime"
                    => (ev'.arg = end_date /\ ev'.arg # NoDate) ]_vars

\* C22 witness: both inputs blank on 2024-03-01, the clock showing the next
\* day by the time the end date is decided: both dates are 2024-03-01
C22_Witness ==
    /\ ev.kind = "dates"
    /\ ev.start_raw = << >> /\ ev.end_raw = << >>
    /\ ev.today = Date(2024, 3, 1) /\ ev.today_end = Date(2024, 3, 2)
    /\ start_date = str_2024_03_01
    /\ end_date = str_2024_03_01

MaxBoxes == 3
LabelPool == << "A", "B", "C", "D", "E" >>
BoxLabels == { LabelPool[i] : i \in 1..MaxBoxes }

\* the checkboxes of a section: the labels of a set, in the order of the pool
SeqOfLabels(labels) ==
    LET Present(l) == l \in labels
    IN SelectSeq(SubSeq(LabelPool, 1, MaxBoxes), Present)

\* lines 288-295: a checkbox is clicked when it is wanted and not checked_set,
\* or checked_set and not wanted
NeedsClickAddOnly(wanted, is_checked) == wanted /\ ~is_checked
NeedsClick(wanted, is_checked) ==
    (wanted /\ ~is_checked) \/ (~wanted /\ is_checked)

\* line 286: is_checked is read from the element in every iteration of
\* every call (now), not remembered from an earlier call (before)
IsCheckedRemembered(label, now, before) == label \in before
IsChecked(label, now, before) == label \in now

\* lines 288-295: is a success line logged for the checkbox?
BoxLogged(wanted, is_checked) == wanted \/ is_checked

\* a click on a checkbox inverts its aria-checked_set
ToggleBox(set, label) == IF label \in set THEN set \ {label} ELSE set \cup {label}

\* a call with some checkboxes in the section, some of them checked_set, and
\* target labels of which some may not exist in the section
CheckInit ==
    /\ RunIdle
    /\ SweepIdle
    /\ NormIdle
    /\ RetryIdle
    /\ GuiIdle
    /\ \E present \in SUBSET BoxLabels :
         /\ box_labels = SeqOfLabels(present)
         /\ checked0 \in SUBSET present
    /\ checked_set = checked0
    /\ first_checked = checked0
    /\ target_labels \in SUBSET BoxLabels
    /\ box_i = 0
    /\ check_pc = "find"
    /\ clicks = << >>
    /\ check_log = << >>
    /\ check_attempt = 1
    /\ check_again = FALSE
    /\ toggled = << >>

\* lines 276-282: the label, its container and the checkboxes are looked up
CheckFind ==
    /\ check_pc = "find"
    /\ \E found \in BOOLEAN :
         IF found
         THEN /\ check_pc' = "loop"
              /\ box_i' = 1
              /\ check_log' = check_log
         ELSE \* lines 296-298
              /\ check_pc' = "raised"
              /\ box_i' = box_i
              /\ check_log' = Append(check_log, "WARN")
    /\ UNCHANGED << box_labels, checked0, checked_set, target_labels, clicks,
                    check_attempt, check_again, first_checked, toggled >>
    /\ UNCHANGED << runVars, sweepVars, normVars, retryVars, guiVars >>

\* lines 284-295: one iteration of the loop over the checkboxes
CheckBox ==
    /\ check_pc = "loop"
    /\ box_i \in 1..Len(box_labels)
    /\ LET label      == box_labels[box_i]
           wanted     == label \in target_labels
           is_checked == IsChecked(label, checked_set, first_checked)
       IN IF NeedsClick(wanted, is_checked)
          THEN \E click_raises \in BOOLEAN :
                 IF click_raises
                 THEN \* lines 296-298; whether the click took effect is open
                      /\ check_pc' = "raised"
                      /\ box_i' = box_i
                      /\ clicks' = clicks
                      /\ \E took_effect \in BOOLEAN :
                           IF took_effect
                           THEN /\ checked_set' = ToggleBox(checked_set, label)
                                /\ toggled' = Append(toggled, label)
                           ELSE UNCHANGED << checked_set, toggled >>
                      /\ check_log' = Append(check_log, "WARN")
                 ELSE /\ checked_set' = ToggleBox(checked_set, label)
                      /\ toggled' = Append(toggled, label)
                      /\ clicks' = Append(clicks, label)
                      /\ check_log' = Append(check_log, "OK")
                      /\ box_i' = box_i + 1
                      /\ check_pc' = check_pc
          ELSE /\ check_log' = IF BoxLogged(wanted, is_checked)
                               THEN Append(check_log, "OK") ELSE check_log
               /\ box_i' = box_i + 1
               /\ UNCHANGED << checked_set, clicks, check_pc, toggled >>
    /\ UNCHANGED << box_labels, checked0, target_labels, check_attempt, check_again,
                    first_checked >>
    /\ UNCHANGED << runVars, sweepVars, normVars, retryVars, guiVars >>

\* the loop is over: the function returns
CheckReturn ==
    /\ check_pc = "loop"
    /\ box_i > Len(box_labels)
    /\ check_pc' = "returned"
    /\ UNCHANGED << box_labels, checked0, checked_set, target_labels, box_i, clicks,
                    check_log, check_attempt, check_again, first_checked, toggled >>
    /\ UNCHANGED << runVars, sweepVars, normVars, retryVars, guiVars >>

\* a new call of the function: nothing is kept from the call before
NewCheckCall ==
    /\ check_pc' = "find"
    /\ box_i' = 0
    /\ checked0' = checked_set
    /\ clicks' = << >>
    /\ check_log' = << >>
    /\ UNCHANGED << box_labels, checked_set, target_labels, first_checked, toggled >>
    /\ UNCHANGED << runVars, sweepVars, normVars, retryVars, guiVars >>

\* check_multiple_checkboxes_by_labels_with_retry (lines 301-309) is
\* retry_func around the function (lines 57-68): the call that raised is
\* made again while attempts are left, and its error is raised after the
\* last
CheckRetry ==
    /\ check_pc = "raised"
    /\ IF IsLastAttempt(check_attempt)
       THEN /\ check_pc' = "exhausted"
            /\ UNCHANGED << box_labels, checked0, checked_set, target_labels, box_i,
                            clicks, check_log, check_attempt, first_checked,
                            toggled >>
            /\ UNCHANGED << runVars, sweepVars, normVars, retryVars, guiVars >>
       ELSE /\ check_attempt' = check_attempt + 1
            /\ NewCheckCall
    /\ check_again' = check_again

\* the wrapper called a second time with the same target labels, on the
\* state the first call left
CheckAgain ==
    /\ check_pc = "returned"
    /\ ~check_again
    /\ check_again' = TRUE
    /\ check_attempt' = 1
    /\ NewCheckCall

CheckNext ==
    \/ CheckFind
    \/ CheckBox
    \/ CheckReturn
    \/ CheckRetry
    \/ CheckAgain

CheckSpec == CheckInit /\ [][CheckNext]_vars

\* the labels of a sequence
Range(seq) == { seq[i] : i \in 1..Len(seq) }

\* C24: a call that returns has clicked exactly the checkboxes of the
\* symmetric difference of the checked_set set S and the target set T (among
\* those that exist), each once, none of S intersect T and none outside
\* both, and leaves checked_set exactly the existing checkboxes of T.
C24_Reconciliation ==
    check_pc = "returned" =>
       LET S == checked0
           T == target_labels \cap Range(box_labels)
       IN /\ Range(clicks) = (S \ T) \cup (T \ S)
          /\ Len(clicks) = Cardinality(Range(clicks))
          /\ Range(clicks) \cap (S \cap T) = {}
          /\ Range(clicks) \subseteq (S \cup T)
          /\ checked_set = T

\* C24 witness: checked_set {A, C}, target {B, C}: A unchecked, B checked_set, C
\* not touched
C24_Witness ==
    /\ check_pc = "returned"
    /\ box_labels = << "A", "B", "C" >>
    /\ checked0 = { "A", "C" }
    /\ target_labels = { "B", "C" }
    /\ clicks = << "A", "B" >>
    /\ checked_set = { "B", "C" }

\* C25: in every pass in which the reply-email checkbox is found, the block
\* leaves it on (or has spent both clicks of its loop on it) whatever its
\* state was and whatever the configuration says, and clicks nothing when it
\* was on already.
C25_EmailAlwaysOn ==
    (ev.kind = "email" /\ ev.ok)
       => /\ (email_checked \/ ev.clicks = 2)
          /\ (ev.was => (ev.clicks = 0 /\ email_checked))

\* C25 (as the code has it): when the checkbox is found and the
\* configuration asks for the reply e-mail, the block leaves it on (or has
\* spent both clicks of its loop and logs that it could not), clicking
\* nothing when it was on already; when the configuration does not ask for
\* it, the checkbox is neither clicked nor changed and nothing is logged.
C25_EmailOnWhenConfigured ==
    (ev.kind = "email" /\ ev.ok)
       => /\ record_email
             => /\ (email_checked \/ ev.clicks = 2)
                /\ (ev.was => (ev.clicks = 0 /\ email_checked))
                /\ Len(ev.lines) >= 1
                /\ ev.lines[Len(ev.lines)].level
                      = (IF email_checked THEN "OK" ELSE "WARN")
          /\ ~record_email
             => /\ ev.clicks = 0
                /\ email_checked = ev.was
                /\ ev.lines = << >>

\* C25 witness: the configuration does not ask for the reply e-mail and the
\* checkbox, found unchecked, stays unchecked
C25_Witness ==
    /\ ev.kind = "email" /\ ev.ok
    /\ ~record_email
    /\ ~ev.was /\ ~email_checked
    /\ ev.clicks = 0
    /\ pc = "form" /\ FormSteps[step].label = "event_name"

\* the statement of the try-block with this operation and label
StepOf(op, label) ==
    CHOOSE i \in 1..NumSteps : FormSteps[i].op = op /\ FormSteps[i].label = label
\* position in hist at which the statement finished with success (0: never)
OkAt(op, label) ==
    IF \E i \in 1..Len(hist) : hist[i] = Done(StepOf(op, label), TRUE)
    THEN CHOOSE i \in 1..Len(hist) : hist[i] = Done(StepOf(op, label), TRUE)
    ELSE 0
\* is the last step an invocation of this statement?
Invoking(op, label) ==
    /\ ev.kind \in {"call", "attempt"}
    /\ ev.op = op /\ FormSteps[ev.step].label = label
\* position in hist before which the running statement was entered
EntryPos == IF ev.kind = "call" THEN Len(hist) ELSE Len(hist) + 1

\* the statements that must have succeeded before "next" is clicked
BeforeNext ==
    { << "fill_input_by_label", "event_name" >>,
      << "select_radio_by_label", "android_support" >>,
      << "fill_datetime_by_label", "start_datetime" >>,
      << "fill_datetime_by_label", "end_datetime" >>,
      << "select_option_by_label", "register_event" >>,
      << "find_element", "section_marker" >> }

\* "next" is clicked only after the first-section statements succeeded and
\* the section marker was captured; a second-section field is written only
\* after the section-change wait and then the label wait succeeded
OrderAroundNext ==
    /\ Invoking("click_button_by_text", "next")
          => \A s \in BeforeNext :
                OkAt(s[1], s[2]) \in 1..(EntryPos - 1)
    /\ (ev.kind \in {"call", "attempt"}
           /\ ev.step > StepOf("wait_for_label", "event_host"))
          => /\ OkAt("click_button_by_text", "next") >= 1
             /\ OkAt("click_button_by_text", "next")
                   < OkAt("wait_for_form_section_change", "section_marker")
             /\ OkAt("wait_for_form_section_change", "section_marker")
                   < OkAt("wait_for_label", "event_host")
             /\ OkAt("wait_for_label", "event_host") < EntryPos

\* C27: the order around "next" holds and the reply-email checkbox was
\* asserted again after the section marker was captured and before the
\* click on "next".
C27_StepOrderWithReassert ==
    /\ OrderAroundNext
    /\ Invoking("click_button_by_text", "next")
          => \E i \in 1..Len(hist) :
                /\ FormSteps[hist[i].step].kind = "email"
                /\ i > OkAt("find_element", "section_marker")
                /\ i < EntryPos

\* C27 (as the code has it): the order around "next" holds; the reply-email
\* checkbox block runs once, as the first statement of the pass, and not
\* again before "next".
C27_StepOrder ==
    /\ OrderAroundNext
    /\ \A i \in 1..Len(hist) : FormSteps[hist[i].step].kind = "email" => i = 1
    /\ Invoking("click_button_by_text", "next")
          => hist[EntryPos - 1] = Done(StepOf("find_element", "section_marker"), TRUE)

\* C27 witness: the first field of the second section was written after
\* eleven statements had succeeded in source order
C27_Witness ==
    /\ Invoking("fill_input_by_label", "event_host")
    /\ ev.kind = "call" /\ ev.result = "True"
    /\ hist = [i \in 1..12 |-> Done(i, TRUE)]
    /\ FormSteps[9].label = "next"
    /\ FormSteps[10].op = "wait_for_form_section_change"
    /\ FormSteps[11].op = "wait_for_label"

\* C26: when the reply-email checkbox never becomes present (the wait times
\* out) the run does not fail: a line is logged and the pass goes on with
\* the event-name field.
C26_AbsenceTolerated ==
    (ev.kind = "email" /\ ev.text = msg_timeout)
       => /\ pc = "form" /\ status = "running"
          /\ FormSteps[step].label = "event_name"
          /\ Len(ev.lines) >= 1

\* the two tiers of the overseas-announcement field and the field after them
DropdownTier == CHOOSE i \in 1..NumSteps : FormSteps[i].kind = "tier1"
RadioTier == CHOOSE i \in 1..NumSteps : FormSteps[i].kind = "tier2"
FinalField == StepOf("fill_textarea_by_label", "x_announcement")

\* C28: the dropdown is tried first and the radio group only after the
\* dropdown has used up its retries; a tier that gives up, whatever the
\* text of its error (a session-loss text included), leaves the pass
\* running: no handler, no recovery pass, and the final free-text field is
\* next once the radio tier has given up too.
C28_BestEffortFallback ==
    /\ []((pc = "form" /\ step = RadioTier)
             => /\ DropdownTier < RadioTier
                /\ hist[Len(hist)] = Done(DropdownTier, FALSE))
    /\ [][ (pc = "form" /\ step \in {DropdownTier, RadioTier} /\ ev'.kind = "call")
             => /\ pc' = "form" /\ status' = "running"
                /\ exc' = exc /\ failed_step' = failed_step
                /\ passes' = passes /\ sweeps' = sweeps /\ quits' = quits
                /\ retry_count' = retry_count
                /\ (step = DropdownTier /\ ev'.result = "True")
                      => step' = FinalField
                /\ (step = DropdownTier /\ ev'.result = "raised")
                      => (ev'.invocations = max_retries /\ step' = RadioTier)
                /\ step = RadioTier => step' = FinalField
                /\ ev'.result = "raised"
                      => (ev'.invocations = max_retries /\ Len(ev'.swallowed) >= 1) ]_vars

\* C28 witness: both tiers gave up, the final field was written and the run
\* ended with success
C28_Witness ==
    /\ status = "success"
    /\ Len(hist) = NumSteps
    /\ hist[Len(hist) - 2] = Done(DropdownTier, FALSE)
    /\ hist[Len(hist) - 1] = Done(RadioTier, FALSE)
    /\ hist[Len(hist)] = Done(FinalField, TRUE)

\* C29: every error that reaches the handler from a statement after the
\* click on "next" is handled as a session loss (the recovery path).
C29_PostNextAlwaysSessionLoss ==
    (ev.kind = "except" /\ ev.step > NextClickStep) => ev.lost

\* C29 (as the code has it): an error of a retry-wrapped statement after
\* the click on "next" reaches the handler once the retries are used up, and
\* the handler decides by the text of the error as for any other statement:
\* a text with a session-loss keyword takes the recovery path, any other
\* text ends the run with failure at once, nothing closed or swept.
C29_PostNextClassifiedByText ==
    /\ []((ev.kind = "call" /\ ev.result = "raised" /\ ev.step > NextClickStep
             /\ FormSteps[ev.step].kind = "retry")
            => (pc = "except" /\ exc = ev.exc /\ failed_step = ev.step))
    /\ [][ (pc = "except" /\ failed_step > NextClickStep)
             => IF MatchesAnyExact(exc.text, lost_browser_keywords)
                THEN /\ ev'.lost
                     /\ sweeps' = sweeps + 1
                     /\ \/ (pc' = "prepare" /\ retry_count' = retry_count + 1)
                        \/ (pc' = "done" /\ status' = "failure")
                ELSE /\ ~ev'.lost
                     /\ pc' = "done" /\ status' = "failure"
                     /\ sweeps' = sweeps /\ quits' = quits
                     /\ passes' = passes /\ retry_count' = retry_count ]_vars

\* C29 witness: the section-change wait timed out three times after "next"
\* and the run ended with failure, no recovery pass
C29_Witness ==
    /\ ev.kind = "except" /\ ~ev.lost
    /\ ev.step = StepOf("wait_for_form_section_change", "section_marker")
    /\ ev.step > NextClickStep
    /\ ev.text = msg_timeout
    /\ status = "failure" /\ sweeps = 0 /\ passes = 1

\* the keys a list of log lines names, one line per key
KeysNamed(lines) == { lines[i].by : i \in 2..Len(lines) }

\* C30: a configuration that lacks any of the 7 required keys never gets
\* to the core: no task pass, launch, navigation or form statement happens;
\* once the file is read the run ends with failure and every missing key is
\* reported, one line each.
C30_ValidationPrecedesCore ==
    config_keys # RequiredKeySet
       => /\ pc \in {"main", "done"}
          /\ passes = 0 /\ launches = 0 /\ open_sessions = 0
          /\ driver = "None" /\ hist = << >> /\ step = 0
          /\ pc = "done" => status = "failure"
          /\ (ev.kind = "load_config" /\ ev.file = "ok")
                => /\ pc = "done" /\ status = "failure"
                   /\ Len(required_keys) = 7
                   /\ Range(ev.missing) = RequiredKeySet \ config_keys
                   /\ Len(ev.missing) = Cardinality(RequiredKeySet \ config_keys)
                   /\ Len(ev.lines) = 1 + Len(ev.missing)
                   /\ \A i \in 1..Len(ev.lines) : ev.lines[i].level = "WARN"
                   /\ KeysNamed(ev.lines) = RequiredKeySet \ config_keys

\* C30 witness: form_url and event_host are missing; both are reported and
\* the run has failed without a task pass
C30_Witness ==
    /\ config_keys = RequiredKeySet \ { "form_url", "event_host" }
    /\ ev.kind = "load_config" /\ ev.file = "ok"
    /\ ev.missing = << "form_url", "event_host" >>
    /\ Len(ev.lines) = 3
    /\ status = "failure"
    /\ passes = 0 /\ launches = 0

\* the section-change wait of the try-block
SectionWaitStep == StepOf("wait_for_form_section_change", "section_marker")

\* C34: an invocation of the section-change wait returns only when the
\* container its polls locate differs from the one captured before "next";
\* when it is still the captured one the invocation fails with the timeout,
\* retry_func invokes it again up to 3 times in all, and the third failure
\* goes to the handler of the task with no second-section statement run.
C34_SectionWait ==
    [][ (ev'.kind \in {"attempt", "call"} /\ ev'.step = SectionWaitStep /\ pc = "form")
          => /\ ev'.op = "wait_for_form_section_change"
             /\ (ev'.kind = "call" /\ ev'.result = "True")
                   => /\ ev'.located \in SectionContainers
                      /\ ev'.located # previous_section
                      /\ step' = step + 1 /\ pc' = "form"
             /\ ev'.located = previous_section
                   => /\ ev'.kind = "attempt" \/ ev'.result = "raised"
                      /\ ev'.lines[1] = Line("WARN", "wait_for_form_section_change")
             /\ ev'.kind = "attempt"
                   => /\ ev'.invocations < 3
                      /\ step' = step /\ pc' = "form"
                      /\ frame'.attempt = ev'.invocations + 1
             /\ (ev'.kind = "call" /\ ev'.result = "raised")
                   => /\ ev'.invocations = 3
                      /\ pc' = "except" /\ exc' = ev'.exc
                      /\ failed_step' = SectionWaitStep
                      /\ \A i \in 1..Len(hist') : hist'[i].step <= SectionWaitStep
                      /\ \A i \in 1..Len(hist') :
                            hist'[i].step = SectionWaitStep => ~hist'[i].ok
      ]_vars

\* C34 witness: the container was still the captured one at the third
\* timeout; the error is with the handler and the host field was not
\* touched
C34_Witness ==
    /\ ev.kind = "call" /\ ev.step = SectionWaitStep
    /\ ev.located = previous_section
    /\ ev.result = "raised" /\ ev.invocations = 3
    /\ Len(ev.raised) = 3
    /\ \A i \in 1..3 : ev.raised[i].text = msg_timeout
    /\ pc = "except"
    /\ OkAt("click_button_by_text", "next") > 0
    /\ OkAt("wait_for_label", "event_host") = 0

\* the bounds of one run: passes, launches of the pass, launches of the run
\* (every earlier pass made at most LAUNCH_ATTEMPTS), invocations of the
\* statement retry_func is running, and every statement finished at most
\* once in a pass
RunBounds ==
    /\ passes <= MAX_LOST_BROWSER_RETRIES
    /\ launches <= LAUNCH_ATTEMPTS
    /\ attempt <= LAUNCH_ATTEMPTS
    /\ (IF passes = 0 THEN 0 ELSE (passes - 1) * LAUNCH_ATTEMPTS + launches) <= 9
    /\ frame.attempt <= max_retries
    /\ ev.kind \in {"attempt", "call"} => ev.invocations <= 3
    /\ \A i, j \in 1..Len(hist) : hist[i].step = hist[j].step => i = j
    /\ MAX_LOST_BROWSER_RETRIES = 3 /\ LAUNCH_ATTEMPTS = 3 /\ max_retries = 3
    /\ pc = "done" => status \in {"success", "failure"}

\* C35: whatever fails, the run stays within 3 passes, 3 launches a pass
\* (9 in all) and 3 invocations of a retry-wrapped statement a pass, and it
\* ends: sys.exit is reached with a status.
C35_RunTerminates ==
    /\ [] RunBounds
    /\ <> (pc = "done" /\ status \in {"success", "failure"})

\* C35 witness: the third pass made its third launch and the run has ended
\* with failure
C35_Witness ==
    /\ pc = "done" /\ status = "failure"
    /\ passes = 3 /\ launches = 3 /\ attempt = 3
    /\ retry_count = 2
    /\ ev.kind = "navigate" /\ ~ev.ok /\ ev.crash

\* C36: the handler of a session-loss error closes the session and sweeps
\* the orphan processes before it looks at the recovery budget: the cleanup
\* is made on the failure that exhausts the budget too, the run then ends
\* with failure, and nothing is launched once it has ended.
C36_CleanupOnEveryLoss ==
    /\ [] ((ev.kind = "except" /\ ev.lost)
              => /\ sweeps = ev.retry_count + 1
                 /\ driver = "quit" /\ open_sessions = 0
                 /\ ev.lines[1] = Line("WARN", "lost_browser")
                 /\ pc = "done" <=> ev.retry_count + 1 >= MAX_LOST_BROWSER_RETRIES
                 /\ pc = "done" => status = "failure" /\ sweeps = MAX_LOST_BROWSER_RETRIES)
    /\ [][ /\ pc # "done"
           /\ (pc = "except" /\ IsLostBrowser(exc.text))
                 => /\ sweeps' = sweeps + 1
                    /\ quits' = quits + 1
                    /\ launches' = launches
                    /\ open_sessions = 1 /\ open_sessions' = 0
                    /\ pc' \in {"prepare", "done"}
         ]_vars

\* C36 witness: the third session loss: three sweeps made, the session
\* closed, the run ended with failure
C36_Witness ==
    /\ ev.kind = "except" /\ ev.lost /\ ev.retry_count = 2
    /\ pc = "done" /\ status = "failure"
    /\ sweeps = 3 /\ passes = 3
    /\ driver = "quit" /\ open_sessions = 0
    /\ Len(ev.lines) = 2

\* C39: for every input and every reading of the clock, the normalizer
\* nested in _run_impl returns the string form_utils.normalize_date_for_html
\* returns and logs the invalid-format warning exactly when it does.
C39_CopiesAgree ==
    norm_pc = "nested"
       => /\ today_b = today /\ hour_b = hour
          /\ result_b = result
          /\ warned_b = warned
          /\ IsCanonical(result_b)

\* C39 witness: on Wednesday 2024-03-06 both copies turn "Sunday" into
\* 2024-03-10 without a warning
C39_Witness ==
    /\ norm_pc = "nested"
    /\ raw = << "nichi", "you" >>
    /\ today = Date(2024, 3, 6)
    /\ result = << "2","0","2","4","-","0","3","-","1","0" >>
    /\ result_b = result
    /\ ~warned /\ ~warned_b

\* C38: a checkbox is never inverted twice, whatever call raised and was
\* made again; a call that returns after any number of retries leaves
\* checked exactly the existing target labels, having inverted exactly the
\* checkboxes that differed before the first call; and the function run
\* once more on that state clicks nothing and changes nothing.
C38_RetrySafeAndIdempotent ==
    LET T == target_labels \cap Range(box_labels)
    IN /\ Len(toggled) = Cardinality(Range(toggled))
       /\ Range(toggled) \subseteq (first_checked \ T) \cup (T \ first_checked)
       /\ check_attempt <= max_retries
       /\ check_pc = "returned"
             => /\ checked_set = T
                /\ Range(toggled) = (first_checked \ T) \cup (T \ first_checked)
       /\ check_again
             => /\ clicks = << >>
                /\ checked_set = checked0 /\ checked_set = T
                /\ check_pc = "raised" => box_i = 0

\* C38 witness: {A} checked, {B, C} wanted: the first call unchecked A and
\* checked B, then raised on the click on C although the click took effect;
\* the second call clicked nothing and returned with {B, C} checked
C38_Witness ==
    /\ check_pc = "returned" /\ ~check_again
    /\ check_attempt = 2
    /\ box_labels = << "A", "B", "C" >>
    /\ first_checked = { "A" }
    /\ target_labels = { "B", "C" }
    /\ toggled = << "A", "B", "C" >>
    /\ checked0 = { "B", "C" }
    /\ clicks = << >>
    /\ checked_set = { "B", "C" }

\* C38 witness of the repetition: the function run once more after it
\* returned has returned again without a click
C38_WitnessAgain ==
    /\ check_pc = "returned" /\ check_again
    /\ first_checked = { "A" }
    /\ target_labels = { "B" }
    /\ toggled = << "A", "B" >>
    /\ clicks = << >>
    /\ checked_set = { "B" }

\* ---------------------------------------------------------------------------
\* retry_func with its max_retries argument, and the log sink (form_utils 11-68).
\* A task in the shape of autofill's try-block: TaskStatements statements, each
\* `helper_with_retry(..., max_retries=rf_max)` with its result ignored, then the
\* success exit; any exception goes to the handler, which logs and exits 1.
\* The task is run once per log handler, every run on the same operation outcomes.
\* ---------------------------------------------------------------------------

\* largest max_retries argument tried
RetryArgMax == 3
\* number of retry_func statements of the task
TaskStatements == 2

\* what can be registered in LOG_HANDLER: nothing, a handler that returns, a handler
\* that raises on every call
LogHandlers == { "None", "delivers", "raises" }

\* the text of an exception raised by a log handler
msg_handler_raised ==
    <<"h","a","n","d","l","e","r"," ","r","a","i","s","e","d">>

\* what the operation of a helper can do: return, or raise one of these
OperationErrors == { msg_timeout, msg_no_such_window }

\* log_success / log_failure: print, then LOG_HANDLER(text) if one is registered,
\* inside try / except Exception: pass
LogCallUnguarded(handler) ==
    [printed |-> 1, called |-> IF handler = "None" THEN 0 ELSE 1,
     raised |-> handler = "raises"]
LogCall(handler) ==
    [printed |-> 1, called |-> IF handler = "None" THEN 0 ELSE 1, raised |-> FALSE]

\* for attempt in range(1, max_retries + 1): is i in the range?
InRangeAtLeastOnce(i, max) == i <= max \/ i = 1
InRange(i, max) == i <= max

\* a helper such as wait_for_label: the operation, then log_success; on any
\* exception log_failure and re-raise.  The exception the helper call ends with:
HelperRaises(r, handler) ==
    IF r = NoError
    THEN IF LogCall(handler).raised THEN msg_handler_raised ELSE NoError
    ELSE IF LogCall(handler).raised THEN msg_handler_raised ELSE r
\* number of log calls the helper makes
HelperLogCalls(r, handler) ==
    IF r = NoError /\ LogCall(handler).raised THEN 2 ELSE 1

\* a task run that has not started
NewRun ==
    [pc |-> "statement", stmt |-> 1, attempt |-> 0, last_exception |-> NoError,
     invocations |-> 0, passed |-> << >>, exc |-> NoError, exit |-> "running",
     printed |-> 0, handler_calls |-> 0, max_logged |-> 0]

\* s after n more log calls
Logged(s, n, handler) ==
    [s EXCEPT !.printed = @ + n * LogCall(handler).printed,
              !.handler_calls = @ + n * LogCall(handler).called]

\* retry_func raised e, or a log call inside it did: the task's handler is entered
ToHandler(s, e) == [s EXCEPT !.pc = "except", !.exc = e]

\* retry_func returned `value`: the statement is passed, the next one follows
Returned(s, value) ==
    [s EXCEPT !.pc = IF s.stmt = TaskStatements THEN "exit" ELSE "statement",
              !.stmt = IF s.stmt = TaskStatements THEN s.stmt ELSE s.stmt + 1,
              !.passed = Append(@, [stmt |-> s.stmt, value |-> value,
                                    invocations |-> s.invocations])]

\* one step of the task run s under `handler`; r is what the operation does if this
\* step invokes it
TaskStep(s, r, max, handler) ==
    CASE s.pc = "statement" ->
            \* retry_func entered: last_exception = None, the loop begins
            [s EXCEPT !.pc = IF InRange(1, max) THEN "call" ELSE "after_loop",
                      !.attempt = 1, !.last_exception = NoError,
                      !.invocations = 0]
      [] s.pc = "call" ->
            LET e == HelperRaises(r, handler)
                t == [Logged(s, HelperLogCalls(r, handler), handler)
                         EXCEPT !.invocations = @ + 1]
            IN IF e = NoError
               THEN Returned(t, "True")
               ELSE \* except Exception as e: last_exception = e; log_failure(...)
                    LET u == Logged([t EXCEPT !.last_exception = e], 1, handler)
                    IN IF LogCall(handler).raised
                       THEN ToHandler(u, msg_handler_raised)
                       ELSE [u EXCEPT !.attempt = @ + 1,
                                      !.pc = IF InRange(s.attempt + 1, max)
                                             THEN "call" ELSE "after_loop"]
      [] s.pc = "after_loop" ->
            \* log_failure(max retries reached); raise last_exception if there is one
            LET t == [Logged(s, 1, handler) EXCEPT !.max_logged = @ + 1]
            IN IF LogCall(handler).raised
               THEN ToHandler(t, msg_handler_raised)
               ELSE IF s.last_exception # NoError
                    THEN ToHandler(t, s.last_exception)
                    ELSE Returned(t, "None")
      [] s.pc = "exit" ->
            \* log_success(...); sys.exit(0)
            LET t == Logged(s, 1, handler)
            IN IF LogCall(handler).raised
               THEN ToHandler(t, msg_handler_raised)
               ELSE [t EXCEPT !.pc = "done", !.exit = "success"]
      [] s.pc = "except" ->
            \* log_failure(...); sys.exit(1)
            LET t == Logged(s, 1, handler)
            IN [t EXCEPT !.pc = "done",
                         !.exit = IF LogCall(handler).raised
                                  THEN "uncaught" ELSE "failure"]
      [] OTHER -> s

\* what of a run is control flow and status, and not the log output
Control(s) ==
    [pc |-> s.pc, stmt |-> s.stmt, attempt |-> s.attempt,
     last_exception |-> s.last_exception, invocations |-> s.invocations,
     passed |-> s.passed, exc |-> s.exc, exit |-> s.exit]

RetryInit ==
    /\ rf_max \in (-1)..RetryArgMax
    /\ rf_runs = [h \in LogHandlers |-> NewRun]
    /\ rf_outcomes = << >>
    /\ RunIdle
    /\ SweepIdle
    /\ NormIdle
    /\ CheckIdle
    /\ GuiIdle

\* every run takes its next step; r is what the operation does where a run
\* invokes it
AllRuns(r) == [h \in LogHandlers |-> TaskStep(rf_runs[h], r, rf_max, h)]

\* the position of the runs (that of the run without a handler)
RunsAt(at) == rf_runs["None"].pc = at

\* a statement calls retry_func (lines 55-57)
EnterRetryFunc ==
    /\ RunsAt("statement")
    /\ rf_runs' = AllRuns(NoError)
    /\ UNCHANGED << rf_max, rf_outcomes, runVars, sweepVars, normVars, checkVars, guiVars >>

\* one iteration of the loop: the helper is invoked (lines 58-64)
InvokeHelper ==
    /\ RunsAt("call")
    /\ \E r \in { NoError } \cup OperationErrors :
          /\ rf_runs' = AllRuns(r)
          /\ rf_outcomes' = Append(rf_outcomes, r)
    /\ UNCHANGED << rf_max, runVars, sweepVars, normVars, checkVars, guiVars >>

\* after the loop (lines 66-68)
AfterLoop ==
    /\ RunsAt("after_loop")
    /\ rf_runs' = AllRuns(NoError)
    /\ UNCHANGED << rf_max, rf_outcomes, runVars, sweepVars, normVars, checkVars, guiVars >>

\* the success exit of the task
TaskExit ==
    /\ RunsAt("exit")
    /\ rf_runs' = AllRuns(NoError)
    /\ UNCHANGED << rf_max, rf_outcomes, runVars, sweepVars, normVars, checkVars, guiVars >>

\* the exception handler of the task
TaskExcept ==
    /\ RunsAt("except")
    /\ rf_runs' = AllRuns(NoError)
    /\ UNCHANGED << rf_max, rf_outcomes, runVars, sweepVars, normVars, checkVars, guiVars >>

RetryNext ==
    \/ EnterRetryFunc
    \/ InvokeHelper
    \/ AfterLoop
    \/ TaskExit
    \/ TaskExcept

RetrySpec == RetryInit /\ [][RetryNext]_vars

\* C37: retry_func called with max_retries <= 0 never invokes the operation and
\* does not raise: each call logs the max-retries message once and returns None,
\* not True, so the task passes every statement and ends with the success exit
\* although no operation was ever invoked.
C37_NonPositiveMaxSkipsOperation ==
    rf_max <= 0 =>
        \A h \in DOMAIN rf_runs :
            LET s == rf_runs[h]
            IN /\ s.invocations = 0
               /\ s.pc \notin { "call", "except" }
               /\ s.exc = NoError
               /\ s.exit \in { "running", "success" }
               /\ \A k \in 1..Len(s.passed) :
                     /\ s.passed[k].value = "None"
                     /\ s.passed[k].invocations = 0
               /\ s.max_logged = Len(s.passed)
               /\ s.pc = "done" =>
                     /\ s.exit = "success"
                     /\ Len(s.passed) = TaskStatements

C37_Witness ==
    /\ rf_max <= 0
    /\ rf_runs # << >>
    /\ rf_runs["None"].pc = "done"
    /\ rf_runs["None"].exit = "success"
    /\ rf_runs["None"].invocations = 0
    /\ rf_runs["None"].max_logged = TaskStatements
    /\ rf_outcomes = << >>

\* C31: the log sink does not affect correctness: on every sequence of operation
\* outcomes the task run with no handler, with a handler that returns and with a
\* handler that raises on every call are at the same position with the same
\* locals, the same statements passed and the same status, and print the same
\* number of lines; no log call raises, so no run is ended by a handler's
\* exception; a registered handler is called once per log call.
C31_LogSinkDoesNotInterfere ==
    \A h \in DOMAIN rf_runs :
        /\ Control(rf_runs[h]) = Control(rf_runs["None"])
        /\ rf_runs[h].printed = rf_runs["None"].printed
        /\ rf_runs[h].exc # msg_handler_raised
        /\ rf_runs[h].exit # "uncaught"
        /\ rf_runs[h].handler_calls = IF h = "None" THEN 0 ELSE rf_runs[h].printed

C31_Witness ==
    /\ rf_runs # << >>
    /\ rf_runs["raises"].pc = "done"
    /\ rf_runs["raises"].exit = "failure"
    /\ rf_runs["None"].exit = "failure"
    /\ rf_runs["raises"].handler_calls > rf_max
    /\ rf_runs["raises"].passed # << >>
    /\ rf_max = max_retries

\* ---------------------------------------------------------------------------
\* gui_main: AppController._start_runner, RunnerThread.run on its worker thread,
\* AppController.on_runner_finished, and form_utils.LOG_HANDLER.  The GUI thread
\* and the worker threads interleave; finishedWithStatus crosses threads as a
\* queued signal.
\* ---------------------------------------------------------------------------

\* number of RunnerThread objects created
MaxRuns == 2
\* log_success / log_failure calls of one task
MaxLines == 1

\* the mode argument of _start_runner: the two slots pass the first two;
\* RunnerThread.run has a branch for anything else
Modes == { "create_profile", "autofill", "unknown" }
\* the form values of a request: two that validate, one that does not
FormValues == { "values_a", "values_b", "invalid" }
\* the codes create_profile.main and autofill.main pass to sys.exit
ExitCodes == { 0, 1 }

NoOutcome == [kind |-> "none", code |-> 0]
\* how the task of a worker ends: main() of either script ends in sys.exit(code)
\* on every path, or with an exception nothing catches; an unknown mode has no task
TaskOutcomes(mode) ==
    IF mode \in { "create_profile", "autofill" }
    THEN { [kind |-> "SystemExit", code |-> c] : c \in ExitCodes }
         \cup { [kind |-> "Exception", code |-> 0] }
    ELSE { [kind |-> "unknown_mode", code |-> 0] }

\* status = "success" if code == 0 else "error"
StatusOfAnyExit(code) == "success"
StatusOf(code) == IF code = 0 THEN "success" ELSE "error"

\* the finishedWithStatus emissions of run() for an outcome, in order
Emissions(outcome) ==
    CASE outcome.kind = "SystemExit" -> << StatusOf(outcome.code) >>
      [] outcome.kind = "Exception" -> << "error" >>
      [] outcome.kind = "unknown_mode" -> << "error" >>
      [] OTHER -> << >>

\* is set_log_handler(None) executed when the try statement is left this way?
\* (it is in the finally clause)
ResetsHandlerAfterTry(outcome) == outcome.kind = "Exception"
ResetsHandler(outcome) == TRUE

NewWorker(mode) ==
    [pc |-> "started", mode |-> mode, outcome |-> NoOutcome, emits |-> << >>,
     logged |-> 0]

\* QThread.isRunning(): from start() until the thread has ended
IsRunning(w) == w.pc \in { "started", "task", "finally", "returned" }

\* the guard of _start_runner
AlreadyRunningNever(thread) == FALSE
AlreadyRunning(thread) == thread # 0 /\ IsRunning(workers[thread])

GuiEvent(kind, mode) == [kind |-> kind, mode |-> mode]

GuiInit ==
    /\ runner_thread = 0
    /\ workers = << >>
    /\ LOG_HANDLER = 0
    /\ sig_queue = << >>
    /\ window_status = "waiting"
    /\ window_running = FALSE
    /\ config = "initial"
    /\ config_file = "initial"
    /\ delivered = << >>
    /\ gui_ev = NoEvent
    /\ RunIdle
    /\ SweepIdle
    /\ NormIdle
    /\ CheckIdle
    /\ RetryIdle

\* a click on one of the two run buttons (enabled unless set_running(True)):
\* on_create_profile_requested / on_autofill_requested -> _start_runner
StartRunner ==
    /\ ~window_running
    /\ \E mode \in Modes, values \in FormValues, save_ok \in BOOLEAN :
          IF AlreadyRunning(runner_thread)
          THEN /\ gui_ev' = GuiEvent("already_running", mode)
               /\ UNCHANGED << runner_thread, workers, window_status,
                               window_running, config, config_file >>
          ELSE IF values = "invalid"
          THEN /\ gui_ev' = GuiEvent("validation_error", mode)
               /\ UNCHANGED << runner_thread, workers, window_status,
                               window_running, config, config_file >>
          ELSE IF ~save_ok
          THEN /\ config' = values
               /\ gui_ev' = GuiEvent("save_error", mode)
               /\ UNCHANGED << runner_thread, workers, window_status,
                               window_running, config_file >>
          ELSE /\ Len(workers) < MaxRuns
               /\ config' = values
               /\ config_file' = values
               /\ workers' = Append(workers, NewWorker(mode))
               /\ runner_thread' = Len(workers) + 1
               /\ window_status' = CASE mode = "create_profile" -> "creating_profile"
                                     [] mode = "autofill" -> "autofilling"
                                     [] OTHER -> window_status
               /\ window_running' = TRUE
               /\ gui_ev' = GuiEvent("started", mode)
    /\ UNCHANGED << LOG_HANDLER, sig_queue, delivered >>
    /\ UNCHANGED << runVars, sweepVars, normVars, checkVars, retryVars >>

\* run(), lines 351-352: the worker installs its handler
WorkerBegin ==
    /\ \E id \in DOMAIN workers :
          /\ workers[id].pc = "started"
          /\ workers' = [workers EXCEPT ![id].pc = "task"]
          /\ LOG_HANDLER' = id
    /\ UNCHANGED << runner_thread, sig_queue, window_status, window_running,
                    config, config_file, delivered, gui_ev >>
    /\ UNCHANGED << runVars, sweepVars, normVars, checkVars, retryVars >>

\* the task calls log_success / log_failure: the line goes to LOG_HANDLER, if any
WorkerLog ==
    /\ \E id \in DOMAIN workers :
          /\ workers[id].pc = "task"
          /\ workers[id].mode # "unknown"
          /\ workers[id].logged < MaxLines
          /\ workers' = [workers EXCEPT ![id].logged = @ + 1]
          /\ delivered' = IF LOG_HANDLER # 0
                          THEN Append(delivered, [to |-> LOG_HANDLER, by |-> id,
                                                  during |-> workers[LOG_HANDLER].pc])
                          ELSE delivered
    /\ UNCHANGED << runner_thread, LOG_HANDLER, sig_queue, window_status,
                    window_running, config, config_file, gui_ev >>
    /\ UNCHANGED << runVars, sweepVars, normVars, checkVars, retryVars >>

\* run(), lines 354-381: the task ends and its status is emitted
WorkerTaskEnds ==
    /\ \E id \in DOMAIN workers :
          /\ workers[id].pc = "task"
          /\ \E outcome \in TaskOutcomes(workers[id].mode) :
                /\ workers' = [workers EXCEPT ![id].pc = "finally",
                                              ![id].outcome = outcome,
                                              ![id].emits = @ \o Emissions(outcome)]
                /\ sig_queue' = sig_queue \o
                       [k \in 1..Len(Emissions(outcome)) |->
                           [run |-> id, status |-> Emissions(outcome)[k]]]
    /\ UNCHANGED << runner_thread, LOG_HANDLER, window_status, window_running,
                    config, config_file, delivered, gui_ev >>
    /\ UNCHANGED << runVars, sweepVars, normVars, checkVars, retryVars >>

\* run(), lines 382-383: finally: set_log_handler(None); run() returns
WorkerFinally ==
    /\ \E id \in DOMAIN workers :
          /\ workers[id].pc = "finally"
          /\ workers' = [workers EXCEPT ![id].pc = "returned"]
          /\ LOG_HANDLER' = IF ResetsHandler(workers[id].outcome) THEN 0
                            ELSE LOG_HANDLER
    /\ UNCHANGED << runner_thread, sig_queue, window_status, window_running,
                    config, config_file, delivered, gui_ev >>
    /\ UNCHANGED << runVars, sweepVars, normVars, checkVars, retryVars >>

\* the thread ends after run() returned: isRunning() is false from here on
WorkerThreadEnds ==
    /\ \E id \in DOMAIN workers :
          /\ workers[id].pc = "returned"
          /\ workers' = [workers EXCEPT ![id].pc = "finished"]
    /\ UNCHANGED << runner_thread, LOG_HANDLER, sig_queue, window_status,
                    window_running, config, config_file, delivered, gui_ev >>
    /\ UNCHANGED << runVars, sweepVars, normVars, checkVars, retryVars >>

\* the GUI thread takes a queued finishedWithStatus: on_runner_finished(status)
OnRunnerFinished ==
    /\ sig_queue # << >>
    /\ window_status' = IF Head(sig_queue).status = "success" THEN "done" ELSE "error"
    /\ window_running' = FALSE
    /\ sig_queue' = Tail(sig_queue)
    /\ gui_ev' = GuiEvent("finished", Head(sig_queue).status)
    /\ UNCHANGED << runner_thread, workers, LOG_HANDLER, config, config_file,
                    delivered >>
    /\ UNCHANGED << runVars, sweepVars, normVars, checkVars, retryVars >>

GuiNext ==
    \/ StartRunner
    \/ WorkerBegin
    \/ WorkerLog
    \/ WorkerTaskEnds
    \/ WorkerFinally
    \/ WorkerThreadEnds
    \/ OnRunnerFinished

GuiSpec == GuiInit /\ [][GuiNext]_vars

\* the workers whose thread is running
RunningWorkers == { id \in DOMAIN workers : IsRunning(workers[id]) }

\* C32: two-valued outcome: a GUI worker has emitted nothing before its task
\* ends and exactly one finishedWithStatus from then on; the status is "success"
\* or "error", and "success" exactly when the task ended with sys.exit(0); any
\* other exit code, an uncaught exception and an unknown mode give "error".
C32_OneStatusPerRun ==
    \A id \in DOMAIN workers :
        LET w == workers[id]
        IN /\ w.pc \in { "started", "task" } => w.emits = << >>
           /\ w.pc \in { "finally", "returned", "finished" } =>
                 /\ Len(w.emits) = 1
                 /\ w.emits[1] \in { "success", "error" }
                 /\ w.emits[1] = "success" <=>
                       (w.outcome.kind = "SystemExit" /\ w.outcome.code = 0)

C32_Witness ==
    /\ Len(workers) = 2
    /\ workers[1].pc = "finished"
    /\ workers[1].outcome = [kind |-> "SystemExit", code |-> 1]
    /\ workers[1].emits = << "error" >>
    /\ workers[2].pc = "finished"
    /\ workers[2].outcome = [kind |-> "SystemExit", code |-> 0]
    /\ workers[2].emits = << "success" >>
    /\ sig_queue = << >>
    /\ window_status = "done"

\* a step of _start_runner that is not a repetition of the last one
RequestStep == gui_ev' # gui_ev /\ gui_ev'.kind # "finished"

\* C33: single task at a time: at most one worker thread is running in any
\* state; a request handled while a worker is running only shows the
\* already-running error: no validation, no config update or save, no new worker,
\* status label, buttons, log sink and queued signals unchanged.
C33_SingleTaskAtATime ==
    /\ [](Cardinality(RunningWorkers) <= 1)
    /\ [][ (RunningWorkers # {} /\ RequestStep) =>
              /\ gui_ev'.kind = "already_running"
              /\ UNCHANGED << runner_thread, workers, LOG_HANDLER, sig_queue,
                              window_status, window_running, config, config_file,
                              delivered >> ]_vars

C33_Witness ==
    /\ gui_ev.kind = "already_running"
    /\ RunningWorkers = { 1 }
    /\ Len(workers) = 1
    /\ ~window_running
    /\ config = config_file

\* C40: the process-wide log handler is a worker's handler exactly while that
\* worker is between installing it and the finally clause of run(); once run()
\* has returned, whatever the outcome, the handler is None again; every log line
\* a handler received was logged by its own worker's task while that task ran.
C40_HandlerScopedToRun ==
    /\ LOG_HANDLER # 0 =>
          /\ LOG_HANDLER \in DOMAIN workers
          /\ workers[LOG_HANDLER].pc \in { "task", "finally" }
    /\ \A id \in DOMAIN workers :
          /\ workers[id].pc \in { "task", "finally" } => LOG_HANDLER = id
          /\ workers[id].pc \in { "returned", "finished" } => LOG_HANDLER # id
    /\ RunningWorkers = {} => LOG_HANDLER = 0
    /\ \A k \in 1..Len(delivered) :
          /\ delivered[k].to = delivered[k].by
          /\ delivered[k].during = "task"

C40_Witness ==
    /\ Len(workers) = 2
    /\ workers[1].pc = "finished"
    /\ workers[1].outcome.kind = "SystemExit"
    /\ workers[2].pc = "returned"
    /\ workers[2].outcome.kind = "Exception"
    /\ LOG_HANDLER = 0
    /\ Len(delivered) = 2
====
